---- MODULE Spec2Model ----
(***************************************************************************)
(* State-machine model of the JAM node of this repository:                 *)
(*   - the GRANDPA finality engine (Grandpa/grandpa_prod.py),              *)
(*   - the work-report ledger rho/omega/xi/psi_B (Reports-Python),         *)
(*   - the per-block STF pipeline of the server (server/server.py),        *)
(*   - the accumulation queue (Reports-Python, queue_handler.py),          *)
(*   - the Safrole STF (src/jam/core/safrole_manager.py),                  *)
(*   - the assurances, preimages and block-history components,             *)
(*   - the state root of the server and of the block producer.             *)
(*   - the authorization processor, the block producer's slot guard and    *)
(*     the retrying PVM client of the accumulate component.                *)
(* Each part has its own specification over the shared variable list; the  *)
(* variables of the other parts stay at their initial values.              *)
(***************************************************************************)
EXTENDS Integers, Sequences, FiniteSets, TLC

VARIABLES
    \* ---- GRANDPA (grandpa_prod.py) ----
    mode,           \* "node": main_async deployment, "server": finalize_block deployment
    nvalidators,    \* len(config["nodes"])
    pc,             \* position of the round driver inside run_round
    round,          \* GrandpaEngine.round
    finalized,      \* GrandpaEngine.finalized (Nil = None)
    tree,           \* hashes of BlockTree.blocks (= keys of BLOCK_BY_HASH in the node process)
    recv_buffer,    \* GossipNode.recv_buffer: stage -> list of VoteMsg
    head,           \* run_round local: hash of the own prevote
    prevotes,       \* run_round local: the collected prevotes
    candidate,      \* run_round local: the prevote candidate C
    precommits,     \* run_round local: the collected precommits
    final_bh,       \* run_round local / return value
    db_votes,       \* rows of the sqlite table votes
    db_finalized,   \* row id=1 of the sqlite table finalized (Nil = no row)
    justs,          \* history: <<round_number, block_hash>> of every Justification emitted
    round_begin,    \* history: self.finalized and the stored hash when the last round began
    started,        \* history: number of rounds started so far, over all engines
    delivered,      \* history: number of events of the environment so far
    \* ---- per-block pipeline (server.py process_block) ----
    p_pc,           \* position of process_block
    state_file,     \* updated_state.json: per part, the number of the block that wrote it
    pre_file,       \* history: updated_state.json when the current block arrived
    has_preimages,  \* request.block.extrinsic.preimages is not empty
    response,       \* HTTP status of the last /process-block request ("none": none yet)
    blocks,         \* history: number of blocks received so far
    psi_offenders,  \* pre_state.psi.offenders of the state file
    dispute_fields, \* pre_state holds psi, rho, tau, kappa and lambda
    block_disputes, \* extrinsic.disputes of the current block
    offenders_mark, \* offenders_mark of the last result of run_disputes_component
    block_slot,     \* request.block.header.slot of the current block
    file_tau,       \* pre_state.tau of the state file
    pre_tau,        \* history: pre_state.tau when the current block arrived
    p_ran,          \* history: the steps of process_block reached for the current block, in order
    p_failed,       \* history: the first component that failed for the current block ("none")
    block_file,     \* block_produced.json: the number of the block that wrote it (0: no file)
    \* ---- work-report ledger (Reports-Python onchain) ----
    rho,            \* OnchainState.rho: digest -> pending entry (NoPending: no key)
    omega,          \* OnchainState.omega: digest -> status (NoEntry: no key)
    xi,             \* OnchainState.xi: digest -> guarantor of the report (NoEntry: no key)
    psi_B,          \* OnchainState.psi_B: digest -> reason (NoEntry: no key)
    psi_O,          \* OnchainState.psi_O: guarantor key -> dispute_count (0: no key)
    r_result,       \* how the last ledger call ended
    r_calls,        \* history: number of ledger calls so far
    r_slot,         \* current_slot of the latest process_guarantee_extrinsic
    r_disputed,     \* disputedDigestHash when the last ledger call was a dispute, or NoEntry
    signed,         \* history: digest -> guarantors whose copy passed validate_work_report
    omega_objects,  \* the entries of omega are AccumulationEntry objects (FALSE: dicts)
    deps,           \* report.dependencies of the report of each digest
    sorted_order,   \* return value of the last topological_sort
    \* ---- Safrole (jam/core/safrole_manager.py) ----
    state,          \* SafroleManager.state: tau, eta, gamma_a, gamma_s
    hash_prefixed,  \* the verifier returns output_hash with the prefix "0x"
    s_result,       \* how the last process_block ended: "ok" or the error raised
    s_verified,     \* history: randomness of the tickets the verifier accepted in the last call
    \* ---- assurances (assurances/assurances_component.py) ----
    a_file,         \* the assurance fields of the state file: avail_assignments, curr_validators
    a_post,         \* post_state as the last process_block handed it back
    a_output,       \* output of the last process_block ("none": none yet)
    a_slot,         \* header.slot of the last block
    a_tally,        \* history: per core, the assurances of the last block with its bit set
    a_swept,        \* history: the cores whose assignment the last sweep cleared
    \* ---- preimages (Jam-preimages) ----
    accounts,       \* the accounts of the state: requester -> preimages and lookup_meta
    statistics,     \* the statistics of the state: requester -> provided_count
    i_input,        \* history: the preimages of the last block
    i_result,       \* how the last run ended: "ok" or "error" ("none": none yet)
    i_path,         \* history: the program that ran last: "main" or "stf"
    i_calls,        \* history: number of blocks processed so far
    \* ---- block history (Jam-history) ----
    beta,           \* the beta of the state: the recent blocks, oldest first
    h_kind,         \* what create_state_from_dict is handed: "dict" or "State"
    h_seen,         \* history: the inputs of the blocks processed so far, in order
    h_blocks,       \* history: number of blocks processed so far
    \* ---- state root (server/compute_merkle_root.py, jam/core/safrole_block_producer.py) ----
    m_data,         \* server_memory.last_state_data: the state the last root was computed from
    m_root,         \* server_memory.merkle_root (NoRoot = None)
    m_prev,         \* history: the state and the root of the computation before the last
    producer,       \* per node, the SafroleBlockProducer: current_slot, key, manager state
    roots,          \* history: per node, the roots compute_state_root returned, in order
    p_block,        \* the work reports and preimages the producers collect from the state file
    \* ---- authorization (server/auth_integration.py) ----
    authorizations, \* updated_state.json "authorizations": public key -> nonce (0: no record)
    auth_tasks,     \* per request in flight: where it is and the pre_state it loaded
    auth_done,      \* history: per public key, the requests processed to the end
    auth_calls,     \* history: number of requests received so far
    \* ---- block production (jam/core/safrole_block_producer.py, server/server.py) ----
    sp_file,        \* updated_state.json as the producer reads it: current_slot, validators
    sp,             \* the long-lived SafroleBlockProducer of validator 0
    authored,       \* history: the slots of the blocks produce_block returned, in order
    sp_calls,       \* history: number of calls of produce_block so far
    \* ---- PVM client (accumulate/accumulate_component.py) ----
    q_max_retries,  \* config.max_retries of the last call
    q_outcomes,     \* what the i-th HTTP attempt of the last call meets, if it is made
    q_result        \* how the last call ended and the number of HTTP attempts it made

gvars == <<mode, nvalidators, pc, round, finalized, tree, recv_buffer, head, prevotes,
           candidate, precommits, final_bh, db_votes, db_finalized, justs, round_begin,
           started, delivered>>

pvars == <<p_pc, state_file, pre_file, has_preimages, response, blocks, psi_offenders,
           dispute_fields, block_disputes, offenders_mark, block_slot, file_tau, pre_tau,
           p_ran, p_failed, block_file>>

rvars == <<rho, omega, xi, psi_B, psi_O, r_result, r_calls, r_slot, r_disputed, signed, omega_objects, deps,
           sorted_order>>

svars == <<state, hash_prefixed, s_result, s_verified>>

avars == <<a_file, a_post, a_output, a_slot, a_tally, a_swept>>

\* the components that run as programs of their own
ivars == <<accounts, statistics, i_input, i_result, i_path, i_calls>>

hvars == <<beta, h_kind, h_seen, h_blocks>>

mvars == <<m_data, m_root, m_prev, producer, roots, p_block>>

zvars == <<authorizations, auth_tasks, auth_done, auth_calls>>

kvars == <<sp_file, sp, authored, sp_calls>>

qvars == <<q_max_retries, q_outcomes, q_result>>

ovars == <<zvars, kvars, qvars>>

cvars == <<avars, ivars, hvars, mvars, ovars>>

vars == <<gvars, pvars, rvars, svars, cvars>>

-----------------------------------------------------------------------------
(* Bounds of the model *)

MaxValidators == 2
MaxEvents == 2
MaxRounds == 2

-----------------------------------------------------------------------------
(* Blocks.  None is modelled by Nil. *)

Nil == "nil"

\* STATIC_CHAIN: genesis <- a1 <- a4, all audited.
STATIC_CHAIN == {"g", "a1", "a4"}

\* Blocks that gossip, local production or finalize_block may add:
\* x, y, u are children of a4 (u is not audited), v is an audited child of u.
ExtraBlocks == {"x", "y", "u", "v"}

AllBlocks == STATIC_CHAIN \cup ExtraBlocks

\* hash -> record; ord stands for the position of the hash string in string order.
BLOCK_BY_HASH ==
    [h \in AllBlocks |->
        CASE h = "g"  -> [parent |-> Nil,  height |-> 0, audited |-> TRUE,  ord |-> 0]
          [] h = "a1" -> [parent |-> "g",  height |-> 1, audited |-> TRUE,  ord |-> 1]
          [] h = "a4" -> [parent |-> "a1", height |-> 2, audited |-> TRUE,  ord |-> 2]
          [] h = "x"  -> [parent |-> "a4", height |-> 3, audited |-> TRUE,  ord |-> 5]
          [] h = "y"  -> [parent |-> "a4", height |-> 3, audited |-> TRUE,  ord |-> 6]
          [] h = "u"  -> [parent |-> "a4", height |-> 3, audited |-> FALSE, ord |-> 3]
          [] h = "v"  -> [parent |-> "u",  height |-> 4, audited |-> TRUE,  ord |-> 4]]

\* self.blocks.get(cur, {}).get("parent")
ParentOf(t, cur) == IF cur \in t THEN BLOCK_BY_HASH[cur].parent ELSE Nil

\* self.children.get(parent, [])   (only its length is ever read)
Children(t, p) == {c \in t : BLOCK_BY_HASH[c].parent = p}

\* BlockTree.contains_finalized_ancestor
RECURSIVE AncestorWalk(_, _, _)
AncestorWalk(t, cur, fin) ==
    IF cur = Nil THEN FALSE
    ELSE IF cur = fin THEN TRUE
    ELSE AncestorWalk(t, ParentOf(t, cur), fin)

contains_finalized_ancestor(t, block_hash, finalized_hash) ==
    IF finalized_hash = Nil THEN TRUE ELSE AncestorWalk(t, block_hash, finalized_hash)

\* BlockTree.ancestor_chain: block_hash down to (excluding) stop_at
RECURSIVE ancestor_chain(_, _, _)
ancestor_chain(t, cur, stop_at) ==
    IF cur = Nil \/ cur = stop_at THEN {}
    ELSE {cur} \cup ancestor_chain(t, ParentOf(t, cur), stop_at)

\* An ancestor check that never reports a fork.
no_equivocation(t, cur, finalized_hash) == FALSE

\* BlockTree.contains_equivocation_between
RECURSIVE contains_equivocation_between(_, _, _)
contains_equivocation_between(t, cur, finalized_hash) ==
    IF cur = Nil \/ cur = finalized_hash THEN FALSE
    ELSE LET parent == ParentOf(t, cur) IN
         IF parent # Nil /\ Cardinality(Children(t, parent)) > 1 THEN TRUE
         ELSE contains_equivocation_between(t, parent, finalized_hash)

\* The filter of BlockTree.best_chain_head
Candidates(t, finalized_hash) ==
    {h \in t : /\ BLOCK_BY_HASH[h].audited
               /\ contains_finalized_ancestor(t, h, finalized_hash)
               /\ ~contains_equivocation_between(t, h, finalized_hash)}

\* (height, hash) order used by max()
KeyLess(a, b) ==
    \/ BLOCK_BY_HASH[a].height < BLOCK_BY_HASH[b].height
    \/ /\ BLOCK_BY_HASH[a].height = BLOCK_BY_HASH[b].height
       /\ BLOCK_BY_HASH[a].ord < BLOCK_BY_HASH[b].ord

\* BlockTree.best_chain_head / GrandpaEngine.best_head (Nil: vote nil)
best_chain_head(t, finalized_hash) ==
    LET c == Candidates(t, finalized_hash) IN
    IF c = {} THEN Nil
    ELSE CHOOSE h \in c : \A o \in c \ {h} : KeyLess(o, h)

best_head(t, fin) == best_chain_head(t, fin)

-----------------------------------------------------------------------------
(* Votes and tallies *)

Validators(n) == 0 .. (n - 1)

\* The node's own id.
Self == 0

\* A threshold one vote short.
threshold_short(n) == (2 * n) \div 3

\* GrandpaEngine.__init__: self.threshold
threshold(n) == (2 * n) \div 3 + 1

\* vote_message_canonical: the text a vote signs (height and state root follow from
\* the hash)
vote_message_canonical(r, st, bh) == <<r, st, bh>>

\* sign_ed25519: a signature is who signed what, the key of a validator being its id
sign_ed25519(key, msg) == [by |-> key, over |-> msg]

\* a key that belongs to no validator of the set
ForeignKey == MaxValidators

\* A VoteMsg as far as run_round reads it, signed with the given key.
VoteMsg(r, st, bh, val, key) ==
    [round |-> r, stage |-> st, block_hash |-> bh, validator |-> val,
     sig_ed25519 |-> sign_ed25519(key, vote_message_canonical(r, st, bh))]

\* A vote signed by the validator it names.
Vote(r, st, bh, val) == VoteMsg(r, st, bh, val, val)

HashesOf(s) == {s[i].block_hash : i \in 1 .. Len(s)}

\* Counter([v.block_hash for v in votes])[h]
CountOf(s, h) == Cardinality({i \in 1 .. Len(s) : s[i].block_hash = h})

\* counts.most_common(1)[0][0]: the largest count, the first-seen hash on a tie.
most_common(s) ==
    LET best == CHOOSE i \in 1 .. Len(s) :
                    /\ \A j \in 1 .. Len(s) :
                          CountOf(s, s[j].block_hash) <= CountOf(s, s[i].block_hash)
                    /\ \A j \in 1 .. (i - 1) :
                          CountOf(s, s[j].block_hash) < CountOf(s, s[i].block_hash)
    IN s[best].block_hash

\* run_round lines 477-490: the prevote candidate
PrevoteCandidate(pv, n) ==
    IF Len(pv) = 0 THEN Nil
    ELSE LET choice == most_common(pv) IN
         IF CountOf(pv, choice) >= threshold(n) /\ choice # Nil THEN choice ELSE Nil

\* run_round lines 515-531: the hash to finalize (Nil: none)
FinalChoice(pcs, t, fin, n) ==
    IF Len(pcs) = 0 THEN Nil
    ELSE LET bh == most_common(pcs) IN
         IF /\ bh # Nil
            /\ CountOf(pcs, bh) >= threshold(n)
            /\ bh \in t
            /\ BLOCK_BY_HASH[bh].audited
            /\ ~contains_equivocation_between(t, bh, fin)
         THEN bh ELSE Nil

\* A collect step that writes nothing.
PersistNone(db, s) == db

\* persist_vote for every vote of a collected list
PersistAll(db, s) == db \cup {s[i] : i \in 1 .. Len(s)}

EmptyBuffer == [prevote |-> <<>>, precommit |-> <<>>]

NoRound == [finalized |-> Nil, stored |-> Nil]

-----------------------------------------------------------------------------
(* Initial values of the pipeline and of the ledger *)

NoEntry == "none"

Elems(s) == {s[i] : i \in 1 .. Len(s)}

\* rho has no key d: no entry of rho is without a signature
NoPending == [received_signatures |-> {}, submission_slot |-> 0]

Digests == {"d1", "d2"}
Guarantors == {"g1", "g2", "g3"}

\* updated_state.json as the server first finds it
InitialFile ==
    [tau |-> 0, stats |-> 0, reports |-> 0, beta |-> 0, preimages |-> 0, assurances |-> 0]

InitPipelineVars ==
    /\ p_pc = "idle"
    /\ state_file = InitialFile
    /\ pre_file = InitialFile
    /\ has_preimages = FALSE
    /\ response = "none"
    /\ blocks = 0
    /\ psi_offenders = <<>>
    /\ dispute_fields = TRUE
    /\ block_disputes = [verdicts |-> FALSE, culprits |-> {}, faults |-> {}]
    /\ offenders_mark = <<>>
    /\ block_slot = 0
    /\ file_tau = 0
    /\ pre_tau = 0
    /\ p_ran = <<>>
    /\ p_failed = "none"
    /\ block_file = 0

\* OnchainState.__init__
InitLedgerVars ==
    /\ rho = [d \in Digests |-> NoPending]
    /\ omega = [d \in Digests |-> NoEntry]
    /\ xi = [d \in Digests |-> NoEntry]
    /\ psi_B = [d \in Digests |-> NoEntry]
    /\ psi_O = [g \in Guarantors |-> 0]
    /\ r_result = "none"
    /\ r_calls = 0
    /\ r_slot = 0
    /\ r_disputed = NoEntry
    /\ signed = [d \in Digests |-> {}]
    /\ omega_objects = FALSE
    /\ deps = [d \in Digests |-> {}]
    /\ sorted_order = <<>>

\* A validator record: its bandersnatch and its ed25519 key (bls and metadata left out)
validator(n) == [bandersnatch |-> n, ed25519 |-> n + 10]

\* PADDING_VALIDATOR: every key is the string of zeros
PADDING_VALIDATOR == [bandersnatch |-> 0, ed25519 |-> 0]

\* The validator lists of an initial state: previous, active, staged and candidate set
InitialValidators ==
    [lambda_ |-> <<validator(3), validator(1), validator(2)>>,
     kappa   |-> <<validator(1), validator(2), validator(3)>>,
     gamma_k |-> <<validator(2), validator(3), validator(1)>>,
     iota    |-> <<validator(1), validator(3), validator(2)>>]

\* SafroleManager.__init__ on an initial state without tickets
InitSafroleVars ==
    /\ state = [tau |-> 0, eta |-> <<0, 1, 2, 3>>, gamma_a |-> <<>>,
                gamma_s |-> [keys |-> <<1, 2, 3>>],
                lambda_ |-> InitialValidators.lambda_, kappa |-> InitialValidators.kappa,
                gamma_k |-> InitialValidators.gamma_k, iota |-> InitialValidators.iota,
                post_offenders |-> {}]
    /\ hash_prefixed = TRUE
    /\ s_result = "none"
    /\ s_verified = {}

\* assurances_component.load_state when there is no state file
InitAssurancesVars ==
    /\ a_file = [avail_assignments |-> <<>>, curr_validators |-> 0]
    /\ a_post = a_file
    /\ a_output = [kind |-> "none"]
    /\ a_slot = 0
    /\ a_tally = <<>>
    /\ a_swept = {}

\* service ids, and an id without an entry in accounts
Requesters == {1, 2}
NoAccount == [exists |-> FALSE, preimages |-> <<>>, lookup_meta |-> <<>>]

\* Jam-preimages on a state file without accounts
InitPreimagesVars ==
    /\ accounts = [r \in Requesters |-> NoAccount]
    /\ statistics = [r \in Requesters |-> 0]
    /\ i_input = <<>>
    /\ i_result = "none"
    /\ i_path = "none"
    /\ i_calls = 0

\* Jam-history on a state file without beta (state_utils.load_updated_state)
InitHistoryVars ==
    /\ beta = <<>>
    /\ h_kind = "dict"
    /\ h_seen = <<>>
    /\ h_blocks = 0

\* the chapters of the state the serializer writes, and a field that is empty or missing
Chapters == {100, 101, 104}
Absent == [len |-> 0, id |-> 0]
NoRoot == <<"None">>

\* the nodes that produce blocks
Nodes == {1, 2}

\* SafroleBlockProducer.__init__, lines 71-85, on a state file with an initial Safrole
\* state, and a server that has computed no root yet
LoadedProducer(slot, key) ==
    [current_slot |-> slot,
     validator_private_key |-> key,
     state |-> [tau |-> 0, eta |-> <<0, 1, 2, 3>>, gamma_a |-> <<>>,
                gamma_s |-> [keys |-> <<1, 2, 3>>],
                lambda_ |-> InitialValidators.lambda_, kappa |-> InitialValidators.kappa,
                gamma_k |-> InitialValidators.gamma_k, iota |-> InitialValidators.iota,
                post_offenders |-> {}]]

InitStateRootVars ==
    /\ m_data = [c \in Chapters |-> Absent]
    /\ m_root = NoRoot
    /\ m_prev = [data |-> [c \in Chapters |-> Absent], root |-> NoRoot]
    /\ producer = [n \in Nodes |-> LoadedProducer(0, 1)]
    /\ roots = [n \in Nodes |-> <<>>]
    /\ p_block = [work_reports |-> <<>>, preimages |-> <<>>]

\* the requests the server handles at a time, and the public keys that ask
Tasks == {1, 2}
PublicKeys == {"pk1", "pk2"}
NoKey == "None"
Idle == [at |-> "idle", public_key |-> NoKey, authorizations |-> [k \in PublicKeys |-> 0]]

InitAuthorizationVars ==
    /\ authorizations = [k \in PublicKeys |-> 0]
    /\ auth_tasks = [t \in Tasks |-> Idle]
    /\ auth_done = [k \in PublicKeys |-> 0]
    /\ auth_calls = 0

\* create_safrole_producer / SafroleBlockProducer.__init__, lines 71-85, for validator 0
create_safrole_producer(loaded) ==
    [current_slot |-> loaded.current_slot,
     validators |-> loaded.validators,
     validator_index |-> 0,
     last_authored_slot |-> -1]

InitProducerVars ==
    /\ sp_file = [current_slot |-> 0, validators |-> 1]
    /\ sp = create_safrole_producer(sp_file)
    /\ authored = <<>>
    /\ sp_calls = 0

NotCalled == [kind |-> "not called", response |-> 0, posts |-> 0]

InitRetryVars ==
    /\ q_max_retries = 0
    /\ q_outcomes = <<>>
    /\ q_result = NotCalled

InitOtherVars == InitAuthorizationVars /\ InitProducerVars /\ InitRetryVars

InitComponentVars ==
    /\ InitAssurancesVars /\ InitPreimagesVars /\ InitHistoryVars /\ InitStateRootVars
    /\ InitOtherVars

InitGrandpaVars ==
    /\ mode = "node"
    /\ nvalidators = 1
    /\ pc = "idle"
    /\ round = 0
    /\ finalized = Nil
    /\ tree = STATIC_CHAIN
    /\ recv_buffer = EmptyBuffer
    /\ head = Nil
    /\ prevotes = <<>>
    /\ candidate = Nil
    /\ precommits = <<>>
    /\ final_bh = Nil
    /\ db_votes = {}
    /\ db_finalized = Nil
    /\ justs = {}
    /\ round_begin = NoRound
    /\ started = 0
    /\ delivered = 0

-----------------------------------------------------------------------------
(* GRANDPA: initial state *)

InitGrandpa ==
    /\ mode \in {"node", "server"}
    /\ nvalidators \in 1 .. MaxValidators
    /\ pc = "idle"
    /\ round = 0
    /\ finalized = Nil
    /\ tree = STATIC_CHAIN
    /\ recv_buffer = EmptyBuffer
    /\ head = Nil
    /\ prevotes = <<>>
    /\ candidate = Nil
    /\ precommits = <<>>
    /\ final_bh = Nil
    /\ db_votes = {}
    /\ db_finalized = Nil
    /\ justs = {}
    /\ round_begin = NoRound
    /\ started = 0
    /\ delivered = 0
    /\ InitPipelineVars
    /\ InitLedgerVars
    /\ InitSafroleVars
    /\ InitComponentVars

-----------------------------------------------------------------------------
(* GRANDPA: the node deployment (main_async) *)

\* What a peer may put on the wire: any stage, any validator id of the set,
\* nil or any block hash.  Nothing of it is checked on receipt.
NetStages == {"prevote", "precommit"}
NetValidators == {1}
NetHashes == {Nil, "a4", "x", "y"}

UNCHANGED_locals == UNCHANGED <<head, prevotes, candidate, precommits, final_bh>>
UNCHANGED_db == UNCHANGED <<db_votes, db_finalized, justs>>

\* GossipNode.handle_conn, the vote branch: append to the typed buffer.
handle_conn(st, val, bh, key) ==
    /\ mode = "node"
    /\ UNCHANGED <<pvars, rvars, svars, cvars>>
    /\ delivered < MaxEvents
    /\ delivered' = delivered + 1
    /\ recv_buffer' = [recv_buffer EXCEPT ![st] = Append(@, VoteMsg(round, st, bh, val, key))]
    /\ UNCHANGED <<mode, nvalidators, pc, round, finalized, tree, round_begin, started>>
    /\ UNCHANGED_locals
    /\ UNCHANGED_db

\* BlockTree.add_block
add_block(t, h) == t \cup {h}

\* GossipNode.handle_block: import an unknown block.
handle_block(h) ==
    /\ mode = "node"
    /\ UNCHANGED <<pvars, rvars, svars, cvars>>
    /\ h \notin tree
    /\ delivered < MaxEvents
    /\ delivered' = delivered + 1
    /\ tree' = add_block(tree, h)
    /\ UNCHANGED <<mode, nvalidators, pc, round, finalized, recv_buffer, round_begin, started>>
    /\ UNCHANGED_locals
    /\ UNCHANGED_db

\* DummyBlockchain.produce_block: a new block on a recent block of the node (a fork when
\* the parent already has a child); now and then it is not audited yet (block u).
produce_block(h) ==
    /\ mode = "node"
    /\ UNCHANGED <<pvars, rvars, svars, cvars>>
    /\ h \notin tree
    /\ BLOCK_BY_HASH[h].parent \in tree
    /\ tree' = add_block(tree, h)
    /\ UNCHANGED <<mode, nvalidators, pc, round, finalized, recv_buffer, round_begin, started,
                   delivered>>
    /\ UNCHANGED_locals
    /\ UNCHANGED_db

\* run_round lines 444-463: choose the head, sign and buffer the own prevote.
StartRound ==
    /\ mode = "node"
    /\ UNCHANGED <<pvars, rvars, svars, cvars>>
    /\ pc = "idle"
    /\ started < MaxRounds
    /\ started' = started + 1
    /\ head' = best_head(tree, finalized)
    /\ recv_buffer' = [recv_buffer EXCEPT
                          !.prevote = Append(@, Vote(round, "prevote", head', Self))]
    /\ round_begin' = [finalized |-> finalized, stored |-> db_finalized]
    /\ prevotes' = <<>>
    /\ candidate' = Nil
    /\ precommits' = <<>>
    /\ final_bh' = Nil
    /\ pc' = "prevote_wait"
    /\ UNCHANGED <<mode, nvalidators, round, finalized, tree, delivered>>
    /\ UNCHANGED_db

\* run_round lines 465-475: the timer ends; collect and clear the buffer, persist.
CollectPrevotes ==
    /\ mode = "node"
    /\ UNCHANGED <<pvars, rvars, svars, cvars>>
    /\ pc = "prevote_wait"
    /\ prevotes' = recv_buffer.prevote
    /\ recv_buffer' = [recv_buffer EXCEPT !.prevote = <<>>]
    /\ db_votes' = PersistAll(db_votes, prevotes')
    /\ pc' = "prevote_tally"
    /\ UNCHANGED <<mode, nvalidators, round, finalized, tree, head, candidate, precommits,
                   final_bh, db_finalized, justs, round_begin, started, delivered>>

\* run_round lines 477-502: tally, then sign and buffer the own precommit.
TallyPrevotes ==
    /\ mode = "node"
    /\ UNCHANGED <<pvars, rvars, svars, cvars>>
    /\ pc = "prevote_tally"
    /\ candidate' = PrevoteCandidate(prevotes, nvalidators)
    /\ recv_buffer' = [recv_buffer EXCEPT
                          !.precommit = Append(@, Vote(round, "precommit", candidate', Self))]
    /\ pc' = "precommit_wait"
    /\ UNCHANGED <<mode, nvalidators, round, finalized, tree, head, prevotes, precommits,
                   final_bh, round_begin, started, delivered>>
    /\ UNCHANGED_db

\* run_round lines 504-513
CollectPrecommits ==
    /\ mode = "node"
    /\ UNCHANGED <<pvars, rvars, svars, cvars>>
    /\ pc = "precommit_wait"
    /\ precommits' = recv_buffer.precommit
    /\ recv_buffer' = [recv_buffer EXCEPT !.precommit = <<>>]
    /\ db_votes' = PersistAll(db_votes, precommits')
    /\ pc' = "precommit_tally"
    /\ UNCHANGED <<mode, nvalidators, round, finalized, tree, head, prevotes, candidate,
                   final_bh, db_finalized, justs, round_begin, started, delivered>>

\* run_round lines 515-545: tally the precommits, finalize, end the round.
TallyPrecommits ==
    /\ mode = "node"
    /\ UNCHANGED <<pvars, rvars, svars, cvars>>
    /\ pc = "precommit_tally"
    /\ final_bh' = FinalChoice(precommits, tree, finalized, nvalidators)
    /\ IF final_bh' # Nil
       THEN /\ finalized' = final_bh'
            /\ db_finalized' = final_bh'
            /\ justs' = justs \cup {<<round, final_bh'>>}
       ELSE UNCHANGED <<finalized, db_finalized, justs>>
    /\ round' = round + 1
    /\ pc' = "idle"
    /\ head' = Nil
    /\ candidate' = Nil
    /\ prevotes' = <<>>
    /\ UNCHANGED <<mode, nvalidators, tree, recv_buffer, precommits, db_votes,
                   round_begin, started, delivered>>

\* load_finalized + main_async lines 566-568
Recovered(stored) == stored

\* The process dies (at any point) and main_async starts again: a new GossipNode and
\* engine, the finalized pointer reloaded from the store.
Restart ==
    /\ mode = "node"
    /\ UNCHANGED <<pvars, rvars, svars, cvars>>
    /\ delivered < MaxEvents
    /\ delivered' = delivered + 1
    /\ pc' = "idle"
    /\ round' = 0
    /\ finalized' = Recovered(db_finalized)
    /\ tree' = STATIC_CHAIN
    /\ recv_buffer' = EmptyBuffer
    /\ head' = Nil
    /\ prevotes' = <<>>
    /\ candidate' = Nil
    /\ precommits' = <<>>
    /\ final_bh' = Nil
    /\ UNCHANGED <<mode, nvalidators, round_begin, started>>
    /\ UNCHANGED_db

-----------------------------------------------------------------------------
(* GRANDPA: the server deployment (finalize_block) *)

\* finalize_block: a new GossipNode and engine per call (round 0, finalized None, the
\* static chain plus the block), one run_round with no peer connected, so that only
\* the node's own votes are collected.
finalize_block(b) ==
    /\ mode = "server"
    /\ UNCHANGED <<pvars, rvars, svars, cvars>>
    /\ LET t   == add_block(STATIC_CHAIN, b)
           fin == Nil
           r   == 0
           hd  == best_head(t, fin)
           pv  == <<Vote(r, "prevote", hd, Self)>>
           c   == PrevoteCandidate(pv, nvalidators)
           pcs == <<Vote(r, "precommit", c, Self)>>
           fb  == FinalChoice(pcs, t, fin, nvalidators)
       IN /\ round_begin' = [finalized |-> fin, stored |-> db_finalized]
          /\ tree' = t
          /\ head' = hd
          /\ prevotes' = pv
          /\ candidate' = c
          /\ precommits' = pcs
          /\ final_bh' = fb
          /\ db_votes' = PersistAll(PersistAll(db_votes, pv), pcs)
          /\ IF fb # Nil
             THEN /\ finalized' = fb
                  /\ db_finalized' = fb
                  /\ justs' = justs \cup {<<r, fb>>}
             ELSE /\ finalized' = fin
                  /\ UNCHANGED <<db_finalized, justs>>
          /\ round' = r + 1
    /\ delivered < MaxEvents
    /\ delivered' = delivered + 1
    /\ UNCHANGED <<mode, nvalidators, pc, recv_buffer, started>>

NextGrandpa ==
    \/ \E st \in NetStages, val \in NetValidators, bh \in NetHashes :
          handle_conn(st, val, bh, val)
    \/ \E h \in ExtraBlocks : handle_block(h)
    \/ \E h \in ExtraBlocks : produce_block(h)
    \/ StartRound
    \/ CollectPrevotes
    \/ TallyPrevotes
    \/ CollectPrecommits
    \/ TallyPrecommits
    \/ Restart
    \/ \E b \in AllBlocks : finalize_block(b)

SpecGrandpa == InitGrandpa /\ [][NextGrandpa]_vars

\* The node among peers that put on the wire votes in the name of any validator id,
\* signed with the key of that validator or with a key of their own.
GossipValidators == {0, 1}
GossipHashes == {Nil, "a4"}

NextGossip ==
    \/ \E st \in NetStages, val \in GossipValidators, bh \in GossipHashes :
          \E key \in {val, ForeignKey} : handle_conn(st, val, bh, key)
    \/ StartRound
    \/ CollectPrevotes
    \/ TallyPrevotes
    \/ CollectPrecommits
    \/ TallyPrecommits

InitGossip == InitGrandpa /\ mode = "node"

SpecGossip == InitGossip /\ [][NextGossip]_vars

-----------------------------------------------------------------------------
(* The per-block pipeline: POST /process-block (server.py) *)

MaxBlocks == 3
MaxSlot == 2

\* save_full_state(updated_state_path, deep_merge(next_state, post)): the part's
\* keys are replaced in the file
save_full_state(file, part, n) == [file EXCEPT ![part] = n]

dvars == <<psi_offenders, dispute_fields, block_disputes, offenders_mark, block_slot,
           file_tau, pre_tau>>

\* a step of process_block was reached and went through, or it was reached and failed
stf_ran(stf) == p_ran' = Append(p_ran, stf) /\ UNCHANGED <<p_failed, block_file>>
stf_failed(stf) ==
    /\ p_ran' = Append(p_ran, stf)
    /\ p_failed' = IF p_failed = "none" THEN stf ELSE p_failed
    /\ UNCHANGED block_file

\* validator keys that a culprit or a fault can name
ValidatorKeys == {1, 2}

\* extrinsic.disputes: whether there are verdicts, and the keys of culprits and faults
Disputes == [verdicts : BOOLEAN, culprits : SUBSET ValidatorKeys, faults : {{}, {2}}]

\* sorted(list(S))
RECURSIVE sorted(_)
sorted(S) ==
    IF S = {} THEN <<>>
    ELSE LET least == CHOOSE x \in S : \A y \in S : x <= y
         IN <<least>> \o sorted(S \ {least})

\* A merge that keeps only the new marks.
marks_only(offenders, mark) == sorted(Elems(mark))

\* sorted(list(set(psi.get('offenders', []) + offenders_mark)))
merge_offenders(offenders, mark) == sorted(Elems(offenders) \cup Elems(mark))

\* A request arrives; the state file is loaded.
receive_block(pre, disputes, slot) ==
    /\ p_pc = "idle"
    /\ blocks < MaxBlocks
    /\ blocks' = blocks + 1
    /\ pre_file' = state_file
    /\ has_preimages' = pre
    /\ response' = "none"
    /\ p_pc' = "safrole"
    /\ block_disputes' = disputes
    /\ block_slot' = slot
    /\ pre_tau' = file_tau
    /\ p_ran' = <<>>
    /\ p_failed' = "none"
    /\ UNCHANGED <<state_file, psi_offenders, dispute_fields, offenders_mark, file_tau,
                   block_file, gvars, rvars, svars, cvars>>

\* "except Exception": the request ends with HTTP 500; nothing is written back.
raise_http_500 ==
    /\ response' = "500"
    /\ p_pc' = "idle"
    /\ UNCHANGED <<state_file, pre_file, has_preimages, blocks, dvars, gvars, rvars, svars, cvars>>

\* 1. Safrole: SafroleManager.process_block is not called; the post-state is the
\* pre-state with slot and tau set to the slot of the block, saved at once.
run_safrole_component ==
    /\ p_pc = "safrole"
    /\ file_tau' = block_slot
    /\ state_file' = save_full_state(state_file, "tau", blocks)
    /\ p_pc' = "disputes"
    /\ stf_ran("safrole")
    /\ UNCHANGED <<pre_file, has_preimages, response, blocks, psi_offenders, dispute_fields,
                   block_disputes, offenders_mark, block_slot, pre_tau, gvars, rvars, svars, cvars>>

\* 2. Disputes.  Without the required fields, or with an empty disputes extrinsic, the
\* pre-state is returned as it is.  Otherwise offenders_mark is the empty list, whatever
\* the culprits and faults are, and psi.offenders is merged with it.  The post-state is
\* saved at once.
run_disputes_component ==
    /\ p_pc = "disputes"
    /\ offenders_mark' = <<>>
    /\ psi_offenders' =
          IF ~dispute_fields THEN psi_offenders
          ELSE IF ~block_disputes.verdicts /\ block_disputes.culprits = {}
                  /\ block_disputes.faults = {}
          THEN psi_offenders
          ELSE merge_offenders(psi_offenders, <<>>)
    /\ state_file' = state_file
    /\ p_pc' = "stats"
    /\ stf_ran("disputes")
    /\ UNCHANGED <<pre_file, has_preimages, response, blocks, dispute_fields, block_disputes,
                   block_slot, file_tau, pre_tau, gvars, rvars, svars, cvars>>

\* 3. Validator statistics, saved at once.
run_state_component ==
    /\ p_pc = "stats"
    /\ state_file' = save_full_state(state_file, "stats", blocks)
    /\ p_pc' = "reports"
    /\ stf_ran("stats")
    /\ UNCHANGED <<pre_file, has_preimages, response, blocks, dvars, gvars, rvars, svars, cvars>>

\* 4. Reports: a subprocess that writes the file itself, or exits non-zero.
run_reports_component(ok) ==
    /\ p_pc = "reports"
    /\ IF ok THEN stf_ran("reports") ELSE stf_failed("reports")
    /\ IF ok
       THEN /\ state_file' = save_full_state(state_file, "reports", blocks)
            /\ p_pc' = "history"
            /\ UNCHANGED <<pre_file, has_preimages, response, blocks, dvars, gvars, rvars, svars, cvars>>
       ELSE raise_http_500

\* 5. Jam-History: beta into the file, or failure.
run_jam_history(ok) ==
    /\ p_pc = "history"
    /\ IF ok THEN stf_ran("history") ELSE stf_failed("history")
    /\ IF ok
       THEN /\ state_file' = save_full_state(state_file, "beta", blocks)
            /\ p_pc' = "preimages"
            /\ UNCHANGED <<pre_file, has_preimages, response, blocks, dvars, gvars, rvars, svars, cvars>>
       ELSE raise_http_500

\* 6. Jam-Preimages: only when the block carries preimages.
run_jam_preimages(ok) ==
    /\ p_pc = "preimages"
    /\ IF ~has_preimages THEN UNCHANGED <<p_ran, p_failed, block_file>>
       ELSE IF ok THEN stf_ran("preimages") ELSE stf_failed("preimages")
    /\ IF ~has_preimages
       THEN /\ p_pc' = "assurances"
            /\ UNCHANGED <<state_file, pre_file, has_preimages, response, blocks, dvars, gvars, rvars, svars, cvars>>
       ELSE IF ok
       THEN /\ state_file' = save_full_state(state_file, "preimages", blocks)
            /\ p_pc' = "assurances"
            /\ UNCHANGED <<pre_file, has_preimages, response, blocks, dvars, gvars, rvars, svars, cvars>>
       ELSE raise_http_500

\* run_safrole_with_merkle_root: create_safrole_producer raises NameError in
\* SafroleBlockProducer.__init__ (header is not defined), before the block is produced
\* and before block_produced.json is written; execute_server_flow re-raises, and
\* process_block logs the failure as non-critical
run_safrole_with_merkle_root(file, n) == file

\* 7. Assurances merges its post_state.json into the file; a failure is only logged.
\* Then the final state is loaded, 8. the merkle root is computed and stored, the block
\* production is tried, and the final state is returned.
run_assurances_component(ok) ==
    /\ p_pc = "assurances"
    /\ p_ran' = p_ran \o <<"assurances", "root">>
    /\ p_failed' = IF ok \/ p_failed # "none" THEN p_failed ELSE "assurances"
    /\ block_file' = run_safrole_with_merkle_root(block_file, blocks)
    /\ state_file' = IF ok THEN save_full_state(state_file, "assurances", blocks)
                     ELSE state_file
    /\ response' = "200"
    /\ p_pc' = "idle"
    /\ UNCHANGED <<pre_file, has_preimages, blocks, dvars, gvars, rvars, svars, cvars>>

NextPipeline ==
    \/ \E pre \in BOOLEAN, disputes \in Disputes, slot \in 0 .. MaxSlot :
          receive_block(pre, disputes, slot)
    \/ run_safrole_component
    \/ run_disputes_component
    \/ run_state_component
    \/ \E ok \in BOOLEAN : run_reports_component(ok)
    \/ \E ok \in BOOLEAN : run_jam_history(ok)
    \/ \E ok \in BOOLEAN : run_jam_preimages(ok)
    \/ \E ok \in BOOLEAN : run_assurances_component(ok)

\* The state file as the server finds it: DEFAULT_SAMPLE_DATA, or a file whose psi.offenders
\* is a sorted list of keys and which may lack a field that the disputes component needs.
InitPipeline ==
    /\ p_pc = "idle"
    /\ state_file = InitialFile
    /\ pre_file = InitialFile
    /\ has_preimages = FALSE
    /\ response = "none"
    /\ blocks = 0
    /\ psi_offenders \in {sorted(S) : S \in SUBSET ValidatorKeys}
    /\ dispute_fields \in BOOLEAN
    /\ block_disputes = [verdicts |-> FALSE, culprits |-> {}, faults |-> {}]
    /\ offenders_mark = <<>>
    /\ block_slot = 0
    /\ file_tau = 0
    /\ pre_tau = 0
    /\ p_ran = <<>>
    /\ p_failed = "none"
    /\ block_file = 0
    /\ InitGrandpaVars
    /\ InitLedgerVars
    /\ InitSafroleVars
    /\ InitComponentVars

SpecPipeline == InitPipeline /\ [][NextPipeline]_vars

\* the disputes component has run for the current block and the block has not failed
DisputesDone ==
    \/ p_pc \in {"stats", "reports", "history", "preimages", "assurances"}
    \/ p_pc = "idle" /\ response = "200"

\* C15: every validator key named by a culprit or a fault of a block's disputes extrinsic
\* is in psi.offenders after the block and is in the offenders_mark of that block.
C15_OffendersRecorded ==
    DisputesDone =>
        \A k \in block_disputes.culprits \cup block_disputes.faults :
            k \in Elems(psi_offenders) /\ k \in Elems(offenders_mark)

IsSortedUnique(seq) == \A i, j \in DOMAIN seq : i < j => seq[i] < seq[j]

\* C16: psi.offenders is sorted and free of duplicates after every processed block, and a
\* key that is in it stays in it.
C16_OffendersSortedAndGrowing ==
    /\ [](IsSortedUnique(psi_offenders))
    /\ [][Elems(psi_offenders) \subseteq Elems(psi_offenders')]_vars

\* a block with culprits went through line 366 with offenders already in psi
C16_Witness ==
    /\ p_pc = "stats"
    /\ dispute_fields
    /\ block_disputes.culprits # {}
    /\ Len(psi_offenders) = 2

\* C17: a block whose slot is not above the current tau is rejected (bad_slot): when a
\* block has been accepted, tau is greater than it was when the block arrived.
C17_TauStrictlyIncreases ==
    (p_pc = "idle" /\ response = "200") => file_tau > pre_tau

\* C4: if any STF of a block fails, the persisted state file is exactly the state
\* from before that block.
C4_FailedBlockLeavesState ==
    response = "500" => state_file = pre_file

\* the six STFs, and the steps of a block that are one of them, in the order they ran
SixSTFs == {"safrole", "disputes", "reports", "assurances", "preimages", "history"}
stfs_of(ran) == SelectSeq(ran, LAMBDA step : step \in SixSTFs)

\* C31: when the state root of a block is computed, the six STFs have run for that
\* block, in the order Safrole, Disputes, Guarantees, Assurances, Preimages, History.
C31_StfOrderThenRoot ==
    (p_ran # <<>> /\ p_ran[Len(p_ran)] = "root") =>
        stfs_of(p_ran) =
            <<"safrole", "disputes", "reports", "assurances", "preimages", "history">>

\* C32: when an STF has failed for a block, the request is answered with HTTP 500 and
\* the block has written no block file.
C32_FailureAnswers500 ==
    (p_pc = "idle" /\ p_failed # "none") =>
        response = "500" /\ block_file # blocks

-----------------------------------------------------------------------------
(* The work-report ledger: Reports-Python/src/onchain *)

MaxCalls == 4

\* ONCHAIN_CONSTANTS (configuration)
REPORT_TIMEOUT_SLOTS == 1
SUPER_MAJORITY_THRESHOLD_NUMERATOR == 2
SUPER_MAJORITY_THRESHOLD_DENOMINATOR == 3

Slots == 0 .. MaxSlot

\* report.slot: part of the signed content, so fixed by the digest
report_slot(d) == IF d = "d1" THEN 0 ELSE 1

\* A Work-Report as far as the ledger reads it.  sig_ok: verify_signature succeeds on
\* this copy of the report (the signature is not part of the digest).
Reports ==
    [digest : Digests, guarantor_public_key : Guarantors, sig_ok : BOOLEAN]

\* len(current_guarantors) + len(previous_guarantors) of the refinement context
total_guarantors == Cardinality(Guarantors)

\* math.ceil(total * NUMERATOR / DENOMINATOR)
required_signatures ==
    (total_guarantors * SUPER_MAJORITY_THRESHOLD_NUMERATOR
        + SUPER_MAJORITY_THRESHOLD_DENOMINATOR - 1) \div SUPER_MAJORITY_THRESHOLD_DENOMINATOR

\* validate_work_report: "ok", or the ProtocolError it raises.  The context, assignment,
\* dependency and gas checks of a report pass or fail with its signature check here:
\* all of them raise into the same except branch.
validate_work_report(report, ledger_xi, current_slot) ==
    IF ~report.sig_ok THEN "bad_signature"
    ELSE IF report_slot(report.digest) > current_slot THEN "future_report_slot"
    ELSE IF current_slot - report_slot(report.digest) > REPORT_TIMEOUT_SLOTS
         THEN "report_before_last_rotation"
    ELSE IF ledger_xi[report.digest] # NoEntry THEN "duplicate_package_in_recent_history"
    ELSE "ok"

\* process_guarantee_extrinsic
process_guarantee_extrinsic(report, current_slot) ==
    /\ r_calls < MaxCalls
    /\ r_calls' = r_calls + 1
    /\ current_slot >= r_slot
    /\ r_slot' = current_slot
    /\ r_disputed' = NoEntry
    /\ LET d == report.digest
           g == report.guarantor_public_key
           v == validate_work_report(report, xi, current_slot)
           old == rho[d]
           entry == IF old = NoPending
                    THEN [received_signatures |-> {g}, submission_slot |-> current_slot]
                    ELSE [old EXCEPT !.received_signatures = @ \cup {g}]
       IN IF v # "ok"
          THEN /\ psi_B' = [psi_B EXCEPT ![d] = v]
               /\ psi_O' = [psi_O EXCEPT ![g] = @ + 1]
               /\ r_result' = "rejected"
               /\ UNCHANGED <<rho, omega>>
          ELSE IF old # NoPending /\ g \in old.received_signatures
          THEN /\ r_result' = "duplicate_signature"
               /\ UNCHANGED <<rho, omega, psi_B, psi_O>>
          ELSE IF Cardinality(entry.received_signatures) >= required_signatures
          THEN /\ rho' = [rho EXCEPT ![d] = NoPending]
               /\ omega' = [omega EXCEPT ![d] = "ready"]
               /\ r_result' = "promoted"
               /\ UNCHANGED <<psi_B, psi_O>>
          ELSE IF current_slot - entry.submission_slot > REPORT_TIMEOUT_SLOTS
          THEN /\ rho' = [rho EXCEPT ![d] = NoPending]
               /\ psi_B' = [psi_B EXCEPT ![d] = "timed_out"]
               /\ r_result' = "timed_out"
               /\ UNCHANGED <<omega, psi_O>>
          ELSE /\ rho' = [rho EXCEPT ![d] = entry]
               /\ r_result' = "pending"
               /\ UNCHANGED <<omega, psi_B, psi_O>>
    /\ signed' = IF validate_work_report(report, xi, current_slot) = "ok"
                 THEN [signed EXCEPT ![report.digest] = @ \cup {report.guarantor_public_key}]
                 ELSE signed
    /\ UNCHANGED <<xi, omega_objects, deps, sorted_order, gvars, pvars, svars, cvars>>

\* process_dispute_extrinsic.  The entries of rho and omega are the dicts that
\* process_guarantee_extrinsic stored; reading their attribute .report raises
\* AttributeError (get_report_by_digest, state.py:64 and 66) before anything is changed.
\* xi[d] is the guarantor key of the finalized report.
process_dispute_extrinsic(d, reason) ==
    /\ r_calls < MaxCalls
    /\ r_calls' = r_calls + 1
    /\ r_disputed' = d
    /\ IF rho[d] # NoPending \/ omega[d] # NoEntry
       THEN /\ r_result' = "AttributeError"
            /\ UNCHANGED <<psi_B, psi_O>>
       ELSE IF xi[d] = NoEntry
       THEN /\ r_result' = "ignored"
            /\ UNCHANGED <<psi_B, psi_O>>
       ELSE /\ psi_B' = [psi_B EXCEPT ![d] = IF @ = NoEntry THEN reason ELSE @]
            /\ psi_O' = [psi_O EXCEPT ![xi[d]] = @ + 1]
            /\ r_result' = "late_dispute"
    /\ UNCHANGED <<rho, omega, xi, r_slot, signed, omega_objects, deps, sorted_order, gvars,
                   pvars, svars, cvars>>

Keys(f) == {d \in DOMAIN f : f[d] # NoEntry}

\* Permutations of a set, as sequences: the order in which a dict or a set is iterated
Perms(S) == {f \in [1 .. Cardinality(S) -> S] : \A x \in S : \E i \in DOMAIN f : f[i] = x}

\* report.guarantor_public_key of the report held in omega
guarantor_of(d) == "g1"

\* topological_sort, first two loops: in_degree of a key of the queue is the number of its
\* dependencies that are keys of the queue; a dependency anywhere else is not looked at
in_degree(queue, dependencies) ==
    [d \in Keys(queue) |-> Cardinality(dependencies[d] \cap Keys(queue))]

\* topological_sort, the while loop (Kahn): fifo is the deque, nb the iteration order of
\* the neighbour sets
RECURSIVE kahn(_, _, _, _, _, _)
kahn(queue, dependencies, nb, fifo, degree, out) ==
    IF fifo = <<>> THEN out
    ELSE LET current_digest == Head(fifo)
             IsNeighbour(n) == n \in Keys(queue) /\ current_digest \in dependencies[n]
             neighbours == SelectSeq(nb, IsNeighbour)
             IsFreed(n) == degree[n] = 1
             lowered == [d \in DOMAIN degree |->
                            IF IsNeighbour(d) THEN degree[d] - 1 ELSE degree[d]]
         IN kahn(queue, dependencies, nb, Tail(fifo) \o SelectSeq(neighbours, IsFreed),
                 lowered, Append(out, current_digest))

\* topological_sort: ins is the insertion order of the keys of the queue
topological_sort(queue, dependencies, ins, nb) ==
    LET degree == in_degree(queue, dependencies)
        IsRoot(d) == d \in Keys(queue) /\ degree[d] = 0
    IN kahn(queue, dependencies, nb, SelectSeq(ins, IsRoot), degree, <<>>)

\* process_accumulation_queue, the for loop over the sorted digests.  st holds omega, xi,
\* psi_B, psi_O and the result; fails are the reports whose PVM run or delta raises.
\* A second failure of a guarantor finds the dict that the first one stored in psi_O and
\* raises AttributeError inside the except branch (line 107): the call ends there.
RECURSIVE accumulate(_, _, _)
accumulate(order, st, fails) ==
    IF order = <<>> THEN st
    ELSE LET d == Head(order)
         IN IF st.omega[d] # "ready" THEN accumulate(Tail(order), st, fails)
            ELSE IF d \notin fails
            THEN accumulate(Tail(order),
                            [st EXCEPT !.omega[d] = NoEntry, !.xi[d] = guarantor_of(d)],
                            fails)
            ELSE IF st.psi_O[guarantor_of(d)] > 0
            THEN [st EXCEPT !.omega[d] = NoEntry, !.psi_B[d] = "accumulation_failed",
                            !.result = "AttributeError"]
            ELSE accumulate(Tail(order),
                            [st EXCEPT !.omega[d] = NoEntry, !.psi_B[d] = "accumulation_failed",
                                       !.psi_O[guarantor_of(d)] = 1],
                            fails)

\* process_accumulation_queue.  topological_sort reads entry.report of every entry of
\* omega (line 29): AttributeError on the dicts that process_guarantee_extrinsic stored,
\* before anything is changed.  On AccumulationEntry objects the queue is sorted and every
\* ready report of the order is accumulated.
process_accumulation_queue(ins, nb, fails) ==
    /\ r_calls < MaxCalls
    /\ r_calls' = r_calls + 1
    /\ r_disputed' = NoEntry
    /\ IF Keys(omega) # {} /\ ~omega_objects
       THEN /\ r_result' = "AttributeError"
            /\ UNCHANGED <<omega, xi, psi_B, psi_O, sorted_order>>
       ELSE LET order == topological_sort(omega, deps, ins, nb)
                st == accumulate(order,
                                 [omega |-> omega, xi |-> xi, psi_B |-> psi_B, psi_O |-> psi_O,
                                  result |-> "done"],
                                 fails)
            IN /\ sorted_order' = order
               /\ omega' = st.omega
               /\ xi' = st.xi
               /\ psi_B' = st.psi_B
               /\ psi_O' = st.psi_O
               /\ r_result' = st.result
    /\ UNCHANGED <<rho, r_slot, signed, omega_objects, deps, gvars, pvars, svars, cvars>>

NextReports ==
    \/ \E report \in Reports, current_slot \in Slots :
          process_guarantee_extrinsic(report, current_slot)
    \/ \E d \in Digests, reason \in {"invalid_output"} : process_dispute_extrinsic(d, reason)
    \/ \E ins \in Perms(Keys(omega)), nb \in Perms(Digests), fails \in SUBSET Digests :
          process_accumulation_queue(ins, nb, fails)

InitReports ==
    InitLedgerVars /\ InitGrandpaVars /\ InitPipelineVars /\ InitSafroleVars /\ InitComponentVars

SpecReports == InitReports /\ [][NextReports]_vars

PendingKeys == {d \in Digests : rho[d] # NoPending}

\* C5: after every guarantee submission, dispute or accumulation step no report digest
\* is in more than one of rho, omega, xi and psi_B.
C5_LedgerSetsDisjoint ==
    /\ PendingKeys \cap Keys(omega) = {}
    /\ PendingKeys \cap Keys(xi) = {}
    /\ PendingKeys \cap Keys(psi_B) = {}
    /\ Keys(omega) \cap Keys(xi) = {}
    /\ Keys(omega) \cap Keys(psi_B) = {}
    /\ Keys(xi) \cap Keys(psi_B) = {}

-----------------------------------------------------------------------------
(* Accumulation of a queue of AccumulationEntry objects (onchain/state.py:13-17, 46) *)

\* An OnchainState whose queue holds AccumulationEntry objects: every report is in at
\* most one of omega and xi, with any dependencies (validate_work_report admits a report
\* whose dependency is only pending in rho).
InitAccumulation ==
    /\ omega \in [Digests -> {NoEntry, "ready", "pending"}]
    /\ xi \in [Digests -> {NoEntry, "g1"}]
    /\ Keys(omega) \cap Keys(xi) = {}
    /\ deps \in [Digests -> SUBSET Digests]
    /\ omega_objects = TRUE
    /\ rho = [d \in Digests |-> NoPending]
    /\ psi_B = [d \in Digests |-> NoEntry]
    /\ psi_O = [g \in Guarantors |-> 0]
    /\ r_result = "none"
    /\ r_calls = 0
    /\ r_slot = 0
    /\ r_disputed = NoEntry
    /\ signed = [d \in Digests |-> {}]
    /\ sorted_order = <<>>
    /\ InitGrandpaVars
    /\ InitPipelineVars
    /\ InitSafroleVars
    /\ InitComponentVars

NextAccumulation ==
    \E ins \in Perms(Keys(omega)), nb \in Perms(Digests), fails \in SUBSET Digests :
        process_accumulation_queue(ins, nb, fails)

SpecAccumulation == InitAccumulation /\ [][NextAccumulation]_vars

Before(order, a, b) ==
    \E i, j \in DOMAIN order : i < j /\ order[i] = a /\ order[j] = b

\* the digests that a set of digests depends on, in at most n further steps
RECURSIVE DependsOn(_, _)
DependsOn(S, n) ==
    IF n = 0 THEN S ELSE DependsOn(S \cup UNION {deps[x] : x \in S}, n - 1)

OnCycle(d) == d \in DependsOn(deps[d], Cardinality(Digests))

digest_rank(d) == IF d = "d1" THEN 1 ELSE 2

\* in the queue as it was before the run, the entry at place j of the order had no
\* dependency left when the entry at place i was taken
FreeAt(order, i, j) ==
    \A dep \in deps[order[j]] \cap Keys(omega) :
        \E k \in DOMAIN order : k < i /\ order[k] = dep

GuaranteeResults == {"rejected", "duplicate_signature", "promoted", "timed_out", "pending"}

\* C13: after process_guarantee_extrinsic has run at slot s, rho holds no entry whose
\* submission_slot is more than REPORT_TIMEOUT_SLOTS before s (such entries were moved to
\* psi_B as timed_out).
C13_NoStalePending ==
    r_result \in GuaranteeResults =>
        \A d \in Digests :
            rho[d] # NoPending => r_slot - rho[d].submission_slot <= REPORT_TIMEOUT_SLOTS

\* the digest is in rho, omega or xi (OnchainState.get_report_by_digest)
Known(d) == rho[d] # NoPending \/ omega[d] # NoEntry \/ xi[d] # NoEntry

\* C14: a dispute against a known report leaves its digest in neither rho nor omega and
\* recorded in psi_B, and a digest that is in xi stays in xi.
C14_DisputeDemotes ==
    [][(r_calls' # r_calls /\ r_disputed' # NoEntry) =>
          LET d == r_disputed'
          IN /\ Known(d) =>
                  rho'[d] = NoPending /\ omega'[d] = NoEntry /\ psi_B'[d] # NoEntry
             /\ xi[d] # NoEntry => xi'[d] = xi[d]]_vars

\* C11: with three guarantors, a valid report signed by one guarantor is held in rho;
\* once two more distinct guarantors have submitted valid signatures for the same digest
\* (three in all), the digest is in omega with status ready and is not in rho.
C11_ThreeSignaturesPromote ==
    \A d \in Digests :
        /\ Cardinality(signed[d]) = 1 => rho[d] # NoPending
        /\ Cardinality(signed[d]) = 3 => omega[d] = "ready" /\ rho[d] = NoPending

-----------------------------------------------------------------------------
(* Safrole: SafroleManager.process_block (jam/core/safrole_manager.py) *)

MaxTau == 4
MaxTickets == 2
MaxRandomness == 4

\* state["E"], state["Y"], state["N"]: epoch length, end of the submission phase,
\* ticket attempts per validator
E == 3
Y == 2
N == 1

\* A hex string: its prefix ("0x" or none) and the bytes its digits spell.
\* bytes_to_hex always writes the prefix; hex_to_bytes drops it when it is there.
bytes_to_hex(b) == [prefix |-> "0x", digits |-> b]
hex_to_bytes(h) == h.digits

\* r["output_hash"] of a verification result, as the verifier service writes it
output_hash(ticket) ==
    [prefix |-> IF hash_prefixed THEN "0x" ELSE "", digits |-> ticket.randomness]

\* a > b on two hex strings of the same form and length
hex_greater(a, b) == a.digits > b.digits

\* get_epoch_and_slot_phase
epoch_of(timeslot) == timeslot \div E
phase_of(timeslot) == timeslot % E

\* A submission phase that never ends.
any_phase(slot) == TRUE

\* m_prime < current_state["Y"]
in_submission_phase(slot) == phase_of(slot) < Y

\* list.sort(key=randomness): stable insertion of one ticket, then of a list of tickets
RECURSIVE insert_by_randomness(_, _)
insert_by_randomness(seq, t) ==
    IF seq = <<>> THEN <<t>>
    ELSE IF seq[Len(seq)].randomness <= t.randomness THEN Append(seq, t)
    ELSE Append(insert_by_randomness(SubSeq(seq, 1, Len(seq) - 1), t), seq[Len(seq)])

RECURSIVE sort_by_randomness(_, _)
sort_by_randomness(done, rest) ==
    IF rest = <<>> THEN done
    ELSE sort_by_randomness(insert_by_randomness(done, Head(rest)), Tail(rest))

\* seq[:n]
truncate(seq, n) == SubSeq(seq, 1, IF Len(seq) < n THEN Len(seq) ELSE n)

\* the tickets of a set of randomness values as the initial state lists them
sorted_tickets(S) ==
    LET ids == sorted(S) IN [i \in DOMAIN ids |-> [index |-> 0, randomness |-> ids[i]]]

\* block_input["extrinsic"]: tickets with their attempt, the VRF output of their proof
\* and whether the proof verifies.  Tickets with a bad attempt or a bad proof are tried
\* with one VRF output only.
Tickets ==
    {t \in [attempt : 0 .. N, randomness : 1 .. MaxRandomness, valid : BOOLEAN] :
        t.randomness = 1 \/ (t.attempt < N /\ t.valid)}

Extrinsics == UNION {[1 .. n -> Tickets] : n \in 0 .. MaxTickets}

\* lines 118-171: the ticket part of process_block on the clone current_state.
\* The result is the error raised ("none": none) and the clone as it is then.
process_tickets(current_state, extrinsic, rust_up) ==
    LET submitted_randomness == [i \in DOMAIN extrinsic |-> output_hash(extrinsic[i])]
        existing_ticket_ids == {bytes_to_hex(t.randomness) : t \in Elems(current_state.gamma_a)}
        new_tickets == [i \in DOMAIN extrinsic |->
                           [index |-> extrinsic[i].attempt,
                            randomness |-> hex_to_bytes(submitted_randomness[i])]]
        merged == sort_by_randomness(<<>>, current_state.gamma_a \o new_tickets)
        fail(e) == [err |-> e, current |-> current_state]
    IN IF \E i \in DOMAIN extrinsic : extrinsic[i].attempt >= N THEN fail("bad_ticket_attempt")
       ELSE IF ~rust_up THEN fail("rust_server_batch_verify_failed")
       ELSE IF \E i \in DOMAIN extrinsic : ~extrinsic[i].valid THEN fail("bad_ticket_proof")
       ELSE IF \E i \in 1 .. Len(extrinsic) - 1 :
                  hex_greater(submitted_randomness[i], submitted_randomness[i + 1])
       THEN fail("bad_ticket_order")
       ELSE IF Cardinality(Elems(submitted_randomness)) # Len(submitted_randomness)
       THEN fail("duplicate_ticket")
       ELSE IF \E i \in DOMAIN extrinsic : submitted_randomness[i] \in existing_ticket_ids
       THEN fail("duplicate_ticket")
       ELSE [err |-> "none",
             current |-> [current_state EXCEPT !.gamma_a = truncate(merged, E)]]

\* A rotation that stages the candidate list as it is.
keep_offenders(keys, offenders) == keys

\* process_validator_keys_for_offenders: a padding record in the place of every validator
\* whose ed25519 key is an offender's
process_validator_keys_for_offenders(keys, offenders) ==
    [i \in DOMAIN keys |-> IF keys[i].ed25519 \in offenders THEN PADDING_VALIDATOR
                           ELSE keys[i]]

\* z: the first, the last, the second, the last but one, ...
RECURSIVE z_loop(_, _, _, _)
z_loop(sequence, left, right, result) ==
    IF left > right THEN result
    ELSE z_loop(sequence, left + 1, right - 1,
                IF left < right THEN result \o <<sequence[left], sequence[right]>>
                ELSE Append(result, sequence[left]))

z(sequence) == z_loop(sequence, 1, Len(sequence), <<>>)

\* CryptoBridge.calculate_eta_update: a hash of eta0 followed by the VRF output
calculate_eta_update(eta0, vrf_output) == 2 * eta0 + vrf_output + 4

\* the first four bytes of blake2b(entropy_bytes + index_bytes) as an integer
random_index(entropy, i) == 5 * entropy + 3 * i + 1

\* A seal-key sequence drawn from the first validator only.
first_key_only(post_state) ==
    [i \in 1 .. E |-> post_state.kappa[1].bandersnatch]

\* calculate_fallback_gamma_s: E bandersnatch keys of post_state["kappa"], the i-th at
\* the index the hash of eta[2] and i selects
calculate_fallback_gamma_s(post_state) ==
    IF Len(post_state.kappa) = 0 THEN <<>>
    ELSE [i \in 1 .. E |->
             post_state.kappa[(random_index(post_state.eta[3], i - 1) % Len(post_state.kappa)) + 1].bandersnatch]

\* Seal keys from tickets whenever the accumulator was full.
saturated_only(immediate, prev_m, saturated) == saturated

\* lines 186-190: the condition for a ticketed epoch
tickets_win(immediate, prev_m, saturated) == immediate /\ prev_m >= Y /\ saturated

\* lines 173-201: the epoch change on the clone; composing gamma_z needs the verifier
\* service.
rotate_epoch(pre_state, current_state, next_epoch, rust_up) ==
    LET prev_epoch == epoch_of(pre_state.tau)
        rotated == [current_state EXCEPT
                       !.lambda_ = pre_state.kappa,
                       !.kappa = pre_state.gamma_k,
                       !.gamma_k = process_validator_keys_for_offenders(
                                       pre_state.iota, pre_state.post_offenders)]
        is_prev_accumulator_saturated == Len(pre_state.gamma_a) = E
        is_immediate_epoch_transition == next_epoch = prev_epoch + 1
        zz == z(pre_state.gamma_a)
        winning_tickets == [i \in DOMAIN zz |->
                               [id |-> bytes_to_hex(zz[i].randomness),
                                attempt |-> zz[i].index]]
    IN IF ~rust_up THEN [err |-> "Failed to get gamma_z", current |-> rotated]
       ELSE [err |-> "none",
             current |-> [rotated EXCEPT
                 !.gamma_s = IF tickets_win(is_immediate_epoch_transition,
                                            phase_of(pre_state.tau),
                                            is_prev_accumulator_saturated)
                             THEN [tickets |-> winning_tickets]
                             ELSE [keys |-> calculate_fallback_gamma_s(rotated)],
                 !.gamma_a = <<>>]]

\* process_block up to the point where it raises or returns: the error and the clone
run_block(pre_state, slot, extrinsic, rust_up) ==
    IF slot <= pre_state.tau THEN [err |-> "bad_slot", current |-> pre_state]
    ELSE IF slot > pre_state.tau + 1 /\ extrinsic # <<>>
    THEN [err |-> "unexpected_ticket", current |-> pre_state]
    ELSE LET next_epoch == epoch_of(slot)
             new_eta0 == calculate_eta_update(pre_state.eta[1], 0)
             with_eta == [pre_state EXCEPT !.eta =
                             IF next_epoch > epoch_of(pre_state.tau)
                             THEN <<new_eta0, pre_state.eta[1], pre_state.eta[2],
                                    pre_state.eta[3]>>
                             ELSE <<new_eta0, pre_state.eta[2], pre_state.eta[3],
                                    pre_state.eta[4]>>]
             after_tickets == IF in_submission_phase(slot) /\ extrinsic # <<>>
                              THEN process_tickets(with_eta, extrinsic, rust_up)
                              ELSE [err |-> "none", current |-> with_eta]
             after_epoch == IF after_tickets.err # "none" THEN after_tickets
                            ELSE IF next_epoch > epoch_of(pre_state.tau)
                            THEN rotate_epoch(pre_state, after_tickets.current, next_epoch,
                                              rust_up)
                            ELSE after_tickets
         IN IF after_epoch.err # "none" THEN after_epoch
            ELSE [err |-> "none", current |-> [after_epoch.current EXCEPT !.tau = slot]]

\* A state that keeps what the clone held when the error was raised.
keep_clone(pre_state, current_state) == current_state

\* self.state when process_block raises: line 241 is not reached, self.state is still
\* the object it was, and every change so far was made on the deep clone
state_after_error(pre_state, current_state) == pre_state

\* the tickets that reached the verifier and were all found ok (lines 124-132)
verified_by(pre_state, slot, extrinsic, rust_up) ==
    IF /\ slot > pre_state.tau
       /\ ~(slot > pre_state.tau + 1 /\ extrinsic # <<>>)
       /\ in_submission_phase(slot)
       /\ \A i \in DOMAIN extrinsic : extrinsic[i].attempt < N
       /\ rust_up
       /\ \A i \in DOMAIN extrinsic : extrinsic[i].valid
    THEN {extrinsic[i].randomness : i \in DOMAIN extrinsic}
    ELSE {}

\* SafroleManager.process_block
process_block(slot, extrinsic, rust_up) ==
    LET out == run_block(state, slot, extrinsic, rust_up)
    IN /\ state' = IF out.err = "none" THEN out.current
                   ELSE state_after_error(state, out.current)
       /\ s_result' = IF out.err = "none" THEN "ok" ELSE out.err
       /\ s_verified' = verified_by(state, slot, extrinsic, rust_up)
       /\ UNCHANGED <<hash_prefixed, gvars, pvars, rvars, cvars>>

NextSafrole ==
    \E slot \in 0 .. MaxTau, extrinsic \in Extrinsics, rust_up \in BOOLEAN :
        process_block(slot, extrinsic, rust_up)

\* a list of tickets strictly ascending by randomness
StrictlyAscending(gamma_a) ==
    \A i, j \in DOMAIN gamma_a : i < j => gamma_a[i].randomness < gamma_a[j].randomness

\* SafroleManager.__init__: the initial state holds an accumulator that is sorted, free
\* of duplicates and no longer than E
InitSafrole ==
    /\ state \in [tau : {0}, eta : {<<0, 1, 2, 3>>}, gamma_s : {[keys |-> <<1, 2, 3>>]},
                  gamma_a : {sorted_tickets(S) : S \in SUBSET (1 .. MaxRandomness)},
                  lambda_ : {InitialValidators.lambda_}, kappa : {InitialValidators.kappa},
                  gamma_k : {InitialValidators.gamma_k}, iota : {InitialValidators.iota},
                  post_offenders : {{}}]
    /\ Len(state.gamma_a) <= E
    /\ hash_prefixed \in BOOLEAN
    /\ s_result = "none"
    /\ s_verified = {}
    /\ InitGrandpaVars
    /\ InitPipelineVars
    /\ InitLedgerVars
    /\ InitComponentVars

SpecSafrole == InitSafrole /\ [][NextSafrole]_vars

\* C18: whenever process_block rejects a block with an error, the Safrole state after the
\* call is the state from before the call.
C18_ErrorLeavesState ==
    [][s_result' \notin {"none", "ok"} => state' = state]_vars

\* a block was rejected as duplicate_ticket after the clone had changed
C18_Witness ==
    /\ s_result = "duplicate_ticket"
    /\ state.gamma_a # <<>>
    /\ state.tau > 0

\* C19: after every accepted block gamma_a is strictly ascending by randomness (so no two
\* of its tickets have the same randomness) and holds at most E tickets.
C19_AccumulatorSortedUnique ==
    s_result = "ok" => StrictlyAscending(state.gamma_a) /\ Len(state.gamma_a) <= E

\* C20: a ticket is added to gamma_a only by a block whose slot phase is below Y, and only
\* when the verifier has accepted its proof.
C20_TicketsOnlyInSubmissionPhase ==
    [][\A i \in DOMAIN state'.gamma_a :
          (\A j \in DOMAIN state.gamma_a : state.gamma_a[j] # state'.gamma_a[i]) =>
              /\ phase_of(state'.tau) < Y
              /\ state'.gamma_a[i].randomness \in s_verified']_vars

\* a block of the submission phase has added a ticket to an accumulator that held one
C20_Witness ==
    /\ s_result = "ok"
    /\ s_verified # {}
    /\ Len(state.gamma_a) >= 2
    /\ \E i \in DOMAIN state.gamma_a : state.gamma_a[i].randomness \in s_verified

\* Epoch changes: blocks up to the third epoch, each with at most one acceptable ticket,
\* on an initial state that may list offenders
MaxEpochTau == 6

EpochExtrinsics ==
    {e \in Extrinsics : Len(e) <= 1 /\ \A i \in DOMAIN e : e[i].valid /\ e[i].attempt < N}

NextEpoch ==
    \E slot \in 0 .. MaxEpochTau, extrinsic \in EpochExtrinsics, rust_up \in BOOLEAN :
        process_block(slot, extrinsic, rust_up)

InitEpoch ==
    /\ state \in [tau : {0}, eta : {<<0, 1, 2, 3>>}, gamma_s : {[keys |-> <<1, 2, 3>>]},
                  gamma_a : {sorted_tickets(S) : S \in SUBSET (1 .. MaxRandomness)},
                  lambda_ : {InitialValidators.lambda_}, kappa : {InitialValidators.kappa},
                  gamma_k : {InitialValidators.gamma_k}, iota : {InitialValidators.iota},
                  post_offenders : SUBSET {validator(1).ed25519, validator(2).ed25519}]
    /\ Len(state.gamma_a) <= E
    /\ hash_prefixed = TRUE
    /\ s_result = "none"
    /\ s_verified = {}
    /\ InitGrandpaVars
    /\ InitPipelineVars
    /\ InitLedgerVars
    /\ InitComponentVars

SpecEpoch == InitEpoch /\ [][NextEpoch]_vars

\* an accepted block whose slot lies in a later epoch than the pre-state's tau
EpochChange == s_result' = "ok" /\ epoch_of(state'.tau) > epoch_of(state.tau)

\* C21: on a block that changes the epoch the post-state has lambda_ equal to the
\* pre-state kappa, kappa equal to the pre-state gamma_k, and gamma_k equal to the
\* pre-state iota with every validator whose ed25519 key is in post_offenders replaced
\* by a padding record, the list being as long as iota.
C21_ValidatorRotation ==
    [][EpochChange =>
          /\ state'.lambda_ = state.kappa
          /\ state'.kappa = state.gamma_k
          /\ Len(state'.gamma_k) = Len(state.iota)
          /\ \A i \in DOMAIN state.iota :
                 state'.gamma_k[i] = IF state.iota[i].ed25519 \in state.post_offenders
                                     THEN PADDING_VALIDATOR ELSE state.iota[i]]_vars

\* an epoch change has staged a list in which an offender is padded and another
\* validator is kept
C21_Witness ==
    /\ s_result = "ok"
    /\ epoch_of(state.tau) = 1
    /\ state.lambda_ = InitialValidators.kappa
    /\ state.kappa = InitialValidators.gamma_k
    /\ state.post_offenders # {}
    /\ PADDING_VALIDATOR \in Elems(state.gamma_k)
    /\ \E i \in DOMAIN state.gamma_k : state.gamma_k[i] = state.iota[i]

\* the zig-zag interleave of a list: its odd places count from the head, its even
\* places from the tail
ZigZag(seq) ==
    [i \in DOMAIN seq |-> IF i % 2 = 1 THEN seq[(i + 1) \div 2]
                          ELSE seq[Len(seq) + 1 - (i \div 2)]]

\* C22: on an epoch change gamma_s is the zig-zag ordering of the pre-state gamma_a
\* exactly when the new epoch is the one after the old, the pre-state gamma_a held E
\* tickets and the pre-state slot phase was at least Y; on every other epoch change it
\* is the fallback sequence of E bandersnatch keys of the new kappa.
C22_SealKeySelection ==
    [][EpochChange =>
          LET zz == ZigZag(state.gamma_a)
              ticketed == /\ epoch_of(state'.tau) = epoch_of(state.tau) + 1
                          /\ Len(state.gamma_a) = E
                          /\ phase_of(state.tau) >= Y
          IN IF ticketed
             THEN state'.gamma_s =
                      [tickets |-> [i \in DOMAIN zz |->
                                       [id |-> bytes_to_hex(zz[i].randomness),
                                        attempt |-> zz[i].index]]]
             ELSE /\ DOMAIN state'.gamma_s = {"keys"}
                  /\ Len(state'.gamma_s.keys) = E
                  /\ \A i \in 1 .. E :
                         state'.gamma_s.keys[i] =
                             state'.kappa[(random_index(state'.eta[3], i - 1)
                                           % Len(state'.kappa)) + 1].bandersnatch]_vars

\* an epoch has been entered with ticketed seal keys
C22_Witness ==
    /\ s_result = "ok"
    /\ epoch_of(state.tau) = 1
    /\ DOMAIN state.gamma_s = {"tickets"}
    /\ Len(state.gamma_s.tickets) = E
    /\ state.gamma_s.tickets[1].id.digits < state.gamma_s.tickets[3].id.digits
    /\ state.gamma_s.tickets[3].id.digits < state.gamma_s.tickets[2].id.digits

\* an epoch has been entered over a skipped epoch, with fallback seal keys
C22_WitnessSkipped ==
    /\ s_result = "ok"
    /\ epoch_of(state.tau) = 2
    /\ state.lambda_ = InitialValidators.kappa
    /\ DOMAIN state.gamma_s = {"keys"}

\* the manager alone: tau never decreases, and an accepted block raises it
ManagerTauIncreases ==
    [][state'.tau >= state.tau /\ (s_result' = "ok" /\ state' # state => state'.tau > state.tau)]_vars

-----------------------------------------------------------------------------
(* Assurances: process_block of assurances/assurances_component.py *)

MaxCoreSlot == 2
MaxCores == 2

\* len(curr_validators) of the state file
ValidatorCounts == {4, 6}

\* An entry of avail_assignments: None or {"none": None}; {"some": {report, timeout}};
\* or {report, timeout} as save_state writes it
NoAssignment == [kind |-> "none"]
Assignments(core) ==
    {NoAssignment} \cup [kind : {"some", "flat"}, report : {core}, timeout : 0 .. MaxCoreSlot]

\* bitfield_to_cores: the positions of the bits that are set in the bitfield (bitfields
\* of one byte)
bitfield_to_cores(bitfield) == {i \in 0 .. 7 : (bitfield \div (2 ^ i)) % 2 = 1}

\* An assignment that never goes stale.
never_stale(timeout, slot) == FALSE

\* lines 59 and 65: the timeout of the assignment is below the slot of the block
is_stale(timeout, slot) == timeout < slot

\* Step 1 (lines 53-73): the stale-timeout sweep
sweep(orig_avail_assignments, slot) ==
    [i \in DOMAIN orig_avail_assignments |->
        LET assignment == orig_avail_assignments[i]
        IN IF assignment.kind = "none" THEN NoAssignment
           ELSE IF is_stale(assignment.timeout, slot) THEN NoAssignment
           ELSE [assignment EXCEPT !.kind = "some"]]

\* lines 135-140: the list is extended with empty entries up to max_core
extend(assignments, max_core) ==
    IF Len(assignments) > max_core THEN assignments
    ELSE assignments \o [i \in 1 .. (max_core + 1 - Len(assignments)) |-> NoAssignment]

\* the cores of a set as a list in ascending order
RECURSIVE ascending(_)
ascending(S) ==
    IF S = {} THEN <<>>
    ELSE LET m == CHOOSE x \in S : \A y \in S : x <= y IN <<m>> \o ascending(S \ {m})

\* the keys of core_assurances in the order in which lines 185-190 insert them
RECURSIVE counted_cores(_, _, _)
counted_cores(assurances, avail_assignments, seen) ==
    IF assurances = <<>> THEN seen
    ELSE LET cores == {c \in bitfield_to_cores(Head(assurances).bitfield) :
                          /\ c < Len(avail_assignments)
                          /\ avail_assignments[c + 1].kind # "none"
                          /\ c \notin Elems(seen)}
         IN counted_cores(Tail(assurances), avail_assignments, seen \o ascending(cores))

\* core_assurances[core]
count_of(assurances, core) ==
    Cardinality({i \in DOMAIN assurances : core \in bitfield_to_cores(assurances[i].bitfield)})

\* A threshold of two thirds rounded up, plus one.
supermajority_ceil(validator_count) == (validator_count * 2 + 2) \div 3 + 1

\* line 177
supermajority(validator_count) == (validator_count * 2) \div 3 + 1

\* the first assurance that fails a check of lines 83-99, as its error ("none": none)
RECURSIVE validate_each(_, _)
validate_each(assurances, validator_count) ==
    IF assurances = <<>> THEN "none"
    ELSE LET assurance == Head(assurances)
         IN IF assurance.validator_index < 0 \/ assurance.validator_index >= validator_count
            THEN "bad_validator_index"
            ELSE IF ~assurance.anchor_ok THEN "bad_attestation_parent"
            ELSE validate_each(Tail(assurances), validator_count)

\* process_assurances: the output and the post_state it returns
process_assurances(assurances, slot, filename, pre_state) ==
    LET orig_avail_assignments == pre_state.avail_assignments
        curr_validators == pre_state.curr_validators
        swept == sweep(orig_avail_assignments, slot)
        post_state == [pre_state EXCEPT !.avail_assignments = swept]
        err(e) == [output |-> [kind |-> "err", err |-> e], post_state |-> post_state]
        validator_indices == [i \in DOMAIN assurances |-> assurances[i].validator_index]
        first_error == validate_each(assurances, curr_validators)
        all_cores == UNION {bitfield_to_cores(assurances[i].bitfield) : i \in DOMAIN assurances}
        max_core == IF all_cores = {} THEN 0
                    ELSE CHOOSE c \in all_cores : \A d \in all_cores : d <= c
        orig_extended == extend(orig_avail_assignments, max_core)
        avail_assignments == extend(swept, max_core)
        extended_state == [pre_state EXCEPT !.avail_assignments = avail_assignments]
        order == counted_cores(assurances, avail_assignments, <<>>)
        won == SelectSeq(order, LAMBDA core :
                   count_of(assurances, core) >= supermajority(curr_validators))
        reported == [i \in DOMAIN won |-> avail_assignments[won[i] + 1].report]
        new_avail_assignments ==
            [i \in DOMAIN avail_assignments |->
                IF (i - 1) \in Elems(won)
                THEN [avail_assignments[i] EXCEPT !.kind = "flat"]
                ELSE avail_assignments[i]]
    IN IF assurances = <<>>
       THEN [output |-> [kind |-> "ok", reported |-> <<>>], post_state |-> post_state]
       ELSE IF first_error # "none" THEN err(first_error)
       ELSE IF Cardinality(Elems(validator_indices)) # Len(validator_indices)
       THEN err("not_sorted_or_unique_assurers")
       ELSE IF \E i \in 1 .. Len(validator_indices) - 1 :
                  validator_indices[i] > validator_indices[i + 1]
       THEN err("not_sorted_or_unique_assurers")
       ELSE IF /\ Elems(validator_indices) # 0 .. (curr_validators - 1)
               /\ Len(validator_indices) < curr_validators
       THEN err("not_sorted_or_unique_assurers")
       ELSE IF filename = "assurances_with_bad_signature-1" THEN err("bad_signature")
       ELSE IF /\ filename = "assurance_for_not_engaged_core-1"
               /\ \E core \in all_cores : orig_extended[core + 1].kind = "none"
       THEN [output |-> [kind |-> "err", err |-> "core_not_engaged"],
             post_state |-> extended_state]
       ELSE [output |-> [kind |-> "ok", reported |-> reported],
             post_state |-> [extended_state EXCEPT
                                !.avail_assignments = new_avail_assignments]]

\* save_state: the assurance fields of new_state go to the file, {"some": ...} entries
\* in the form {report, timeout}
save_state(new_state) ==
    [avail_assignments |->
         [i \in DOMAIN new_state.avail_assignments |->
             IF new_state.avail_assignments[i].kind = "some"
             THEN [new_state.avail_assignments[i] EXCEPT !.kind = "flat"]
             ELSE new_state.avail_assignments[i]],
     curr_validators |-> new_state.curr_validators]

\* process_block on a block without a state of its own: the pre-state is the state file
assurances_process_block(assurances, slot, filename) ==
    \E out \in {process_assurances(assurances, slot, filename, a_file)} :
       /\ a_output' = out.output
       /\ a_post' = out.post_state
       /\ a_file' = IF out.output.kind = "ok" THEN save_state(out.post_state) ELSE a_file
       /\ a_slot' = slot
       /\ a_tally' = [c \in 0 .. MaxCores - 1 |-> count_of(assurances, c)]
       /\ a_swept' = {i - 1 : i \in {j \in DOMAIN a_file.avail_assignments :
                           /\ a_file.avail_assignments[j].kind # "none"
                           /\ out.post_state.avail_assignments[j].kind = "none"}}
       /\ UNCHANGED <<gvars, pvars, rvars, svars, ivars, hvars, mvars, ovars>>

\* The assurers of a block: the first k validators in order, or a list that is out of
\* order, repeats an index or names a validator that does not exist
AssurerLists(validator_count) ==
    {[i \in 1 .. k |-> i - 1] : k \in 0 .. validator_count}
        \cup {<<1, 0>>, <<0, 0>>, <<validator_count>>}

\* the assurances of the assurers l: the first k0 set bit 0, none or all set bit 1, and
\* the first has the parent as its anchor or not
assurances_of(l, k0, all1, anchor_ok) ==
    [i \in DOMAIN l |->
        [validator_index |-> l[i],
         anchor_ok |-> (i > 1 \/ anchor_ok),
         bitfield |-> (IF i <= k0 THEN 1 ELSE 0) + (IF all1 THEN 2 ELSE 0)]]

\* the file names that process_assurances looks for, and any other
Filenames == {"", "assurances_with_bad_signature-1", "assurance_for_not_engaged_core-1"}

\* The blocks tried: any number of leading assurers with bit 0; bit 1, a wrong anchor and
\* the special file names with the assurances of all validators or of all listed
BlockInputs(validator_count) ==
    {[assurances |-> assurances_of(l, k0, FALSE, TRUE), filename |-> ""] :
        l \in AssurerLists(validator_count), k0 \in 0 .. validator_count}
    \cup {[assurances |-> assurances_of(l, k0, TRUE, TRUE), filename |-> f] :
             l \in {[i \in 1 .. validator_count |-> i - 1]},
             k0 \in {0, validator_count - 2, validator_count - 1, validator_count},
             f \in Filenames}
    \cup {[assurances |-> assurances_of(l, Len(l), FALSE, FALSE), filename |-> ""] :
             l \in AssurerLists(validator_count)}

NextAssurances ==
    \E input \in BlockInputs(a_file.curr_validators), slot \in 0 .. MaxCoreSlot :
        assurances_process_block(input.assurances, slot, input.filename)

\* A state file that holds an entry for every core
InitAssurances ==
    /\ a_file \in [avail_assignments :
                      {<<x, y>> : x \in Assignments(0), y \in {NoAssignment} \cup
                                      {a \in Assignments(1) : a.kind = "flat"}},
                  curr_validators : ValidatorCounts]
    /\ a_post = a_file
    /\ a_output = [kind |-> "none"]
    /\ a_slot = 0
    /\ a_tally = [c \in 0 .. MaxCores - 1 |-> 0]
    /\ a_swept = {}
    /\ InitGrandpaVars
    /\ InitPipelineVars
    /\ InitLedgerVars
    /\ InitSafroleVars
    /\ InitPreimagesVars
    /\ InitHistoryVars
    /\ InitStateRootVars
    /\ InitOtherVars

SpecAssurances == InitAssurances /\ [][NextAssurances]_vars

\* the reports of the output of a call (none when it is an error)
Reported(output) == IF output.kind = "ok" THEN Elems(output.reported) ELSE {}

\* the assignment of a core in a state, whatever its form: none or <<report, timeout>>
plain(assignment) ==
    IF assignment.kind = "none" THEN <<>> ELSE <<assignment.report, assignment.timeout>>

PlainAssignments(st) == [i \in DOMAIN st.avail_assignments |-> plain(st.avail_assignments[i])]

\* the assignment of core c in the pre-state is live at the slot of the block
Live(st, c, slot) ==
    /\ c < Len(st.avail_assignments)
    /\ st.avail_assignments[c + 1].kind # "none"
    /\ st.avail_assignments[c + 1].timeout >= slot

\* C23: the report of a core that holds a live assignment is in reported exactly when
\* the assurances with that core's bit set number at least ceil(2|kappa|/3)+1; with six
\* validators and a live assignment on core 0, assurances of validators 0..4 with bit 0
\* set (and no other) give reported = [the report of core 0].
C23_ReportedAtSupermajority ==
    [][a_output'.kind # "none" =>
          /\ \A c \in 0 .. MaxCores - 1 :
                Live(a_file, c, a_slot') =>
                    (a_file.avail_assignments[c + 1].report \in Reported(a_output')
                        <=> a_tally'[c] >= supermajority_ceil(a_file.curr_validators))
          /\ (/\ a_file.curr_validators = 6
              /\ Live(a_file, 0, a_slot')
              /\ a_tally' = [c \in 0 .. MaxCores - 1 |-> IF c = 0 THEN 5 ELSE 0])
                 => /\ a_output'.kind = "ok"
                    /\ a_output'.reported = <<a_file.avail_assignments[1].report>>]_vars

\* C24: when the processing of the assurances returns an error, the state handed back
\* holds the assignments of the pre-state and the state file is the one from before.
C24_ErrorKeepsPreState ==
    [][a_output'.kind = "err" =>
          /\ PlainAssignments(a_post') = PlainAssignments(a_file)
          /\ a_post'.curr_validators = a_file.curr_validators
          /\ a_file' = a_file]_vars

\* the part of C24 about the state file: an error leaves the file as it was
ErrorKeepsFile == [][a_output'.kind = "err" => a_file' = a_file]_vars

\* C25: after a successful run for slot s, every assignment of the pre-state with a
\* timeout below s is none in the state handed back and in the state file, and no
\* assignment of either has a timeout below s.
C25_StaleCleared ==
    [][a_output'.kind = "ok" =>
          /\ \A i \in DOMAIN a_file.avail_assignments :
                (/\ a_file.avail_assignments[i].kind # "none"
                 /\ a_file.avail_assignments[i].timeout < a_slot')
                    => /\ a_post'.avail_assignments[i].kind = "none"
                       /\ a_file'.avail_assignments[i].kind = "none"
          /\ \A st \in {a_post', a_file'} : \A i \in DOMAIN st.avail_assignments :
                st.avail_assignments[i].kind # "none" =>
                    st.avail_assignments[i].timeout >= a_slot']_vars

\* a successful run with assurances has cleared a stale assignment and kept a live one
C25_Witness ==
    /\ a_output.kind = "ok"
    /\ a_swept # {}
    /\ a_tally[0] > 0
    /\ \E i \in DOMAIN a_file.avail_assignments : a_file.avail_assignments[i].kind # "none"

-----------------------------------------------------------------------------
(* Preimages: process_updated_state.main with state_manager.process_preimages, and the
   transition function run_preimage_test of src/stf/run_test.py *)

MaxPreimages == 2
MaxPreimageSlot == 2
MaxPreimageBlocks == 2

\* A blob: a hex string, as its prefix and the bytes its digits spell
Blobs == {[prefix |-> "0x", bytes |-> <<1>>], [prefix |-> "0x", bytes |-> <<2, 3>>],
          [prefix |-> "", bytes |-> <<2, 3>>]}

\* lines 145-154 of process_preimages: the blob with the prefix "0x"
clean_blob(blob) == [blob EXCEPT !.prefix = "0x"]

\* the two digests in use: hash_blob of run_test.py, and hashlib.sha256 in
\* process_preimages
blake2b(bytes) == <<"blake2b", bytes>>
sha256(bytes) == <<"sha256", bytes>>
hash_blob(blob) == blake2b(blob.bytes)

\* the place of a digest in the order of the hex strings
hex_rank(hash) == IF hash[1] = "blake2b" THEN 10 - 2 * Head(hash[2]) ELSE 2 * Head(hash[2]) + 1

\* the entries process_preimages makes of the preimages of one requester, from the i-th on
RECURSIVE account_entries(_, _)
account_entries(req_preimages, i) ==
    IF i > Len(req_preimages) THEN [preimages |-> <<>>, lookup_meta |-> <<>>]
    ELSE LET blob == clean_blob(req_preimages[i].blob)
             rest == account_entries(req_preimages, i + 1)
             hash_hex == sha256(blob.bytes)
         IN IF Len(blob.bytes) = 0 THEN rest
            ELSE [preimages |-> <<[hash |-> hash_hex, blob |-> blob]>> \o rest.preimages,
                  lookup_meta |-> <<[key |-> [hash |-> hash_hex, length |-> Len(blob.bytes)],
                                     value |-> <<(i - 1) * 10, i * 10>>]>>
                                      \o rest.lookup_meta]

\* state_manager.process_preimages: per requester of the input, an account made of the
\* preimages of the input alone (requester -> account, NoAccount where it makes none)
process_preimages(preimages) ==
    [r \in Requesters |->
        LET req_preimages == SelectSeq(preimages, LAMBDA p : p.requester = r)
            data == account_entries(req_preimages, 1)
        IN IF data.preimages = <<>> THEN NoAccount
           ELSE [exists |-> TRUE, preimages |-> data.preimages,
                 lookup_meta |-> data.lookup_meta]]

\* lines 481-504 of main: preimages and lookup_meta of every account of post_state
\* replace those of the state
merge_accounts(old, new) == [r \in Requesters |-> IF new[r].exists THEN new[r] ELSE old[r]]

\* process_updated_state.main
preimages_main(preimages) ==
    /\ i_calls < MaxPreimageBlocks
    /\ accounts' = merge_accounts(accounts, process_preimages(preimages))
    /\ statistics' = [r \in Requesters |-> 0]
    /\ i_input' = preimages
    /\ i_result' = "ok"
    /\ i_path' = "main"
    /\ i_calls' = i_calls + 1
    /\ UNCHANGED <<gvars, pvars, rvars, svars, avars, hvars, mvars, ovars>>

\* list.sort(key=hash) of the preimages of an account
RECURSIVE insert_by_hash(_, _)
insert_by_hash(seq, e) ==
    IF seq = <<>> THEN <<e>>
    ELSE IF hex_rank(seq[Len(seq)].hash) <= hex_rank(e.hash) THEN Append(seq, e)
    ELSE Append(insert_by_hash(SubSeq(seq, 1, Len(seq) - 1), e), seq[Len(seq)])

\* A lookup that asks for the hash and the length of the blob.
found_with_length(lookup_meta, blob) ==
    \E i \in DOMAIN lookup_meta :
        /\ lookup_meta[i].key.hash = hash_blob(blob)
        /\ lookup_meta[i].key.length = Len(blob.bytes)

\* lines 230-243: an entry of lookup_meta has the hash of the blob as the hash of its key
found_in_lookup_meta(lookup_meta, blob) ==
    \E i \in DOMAIN lookup_meta : lookup_meta[i].key.hash = hash_blob(blob)

\* lines 194-334 of run_preimage_test for one preimage of the input
provide(new_state, preimage, slot) ==
    LET requester == preimage.requester
        hash_value == hash_blob(preimage.blob)
        account == IF new_state.accounts[requester].exists
                   THEN new_state.accounts[requester]
                   ELSE [exists |-> TRUE, preimages |-> <<>>, lookup_meta |-> <<>>]
        with_account == [new_state EXCEPT !.accounts[requester] = account]
        preimage_exists == \E i \in DOMAIN account.preimages :
                               account.preimages[i].hash = hash_value
        added == [account EXCEPT
                     !.preimages = insert_by_hash(@, [hash |-> hash_value,
                                                      blob |-> preimage.blob]),
                     !.lookup_meta = [i \in DOMAIN @ |->
                         IF @[i].key.hash = hash_value /\ slot \notin Elems(@[i].value)
                         THEN [@[i] EXCEPT !.value = Append(@, slot)]
                         ELSE @[i]]]
    IN IF preimage_exists THEN with_account
       ELSE IF ~found_in_lookup_meta(account.lookup_meta, preimage.blob) THEN with_account
       ELSE [accounts |-> [new_state.accounts EXCEPT ![requester] = added],
             statistics |-> [new_state.statistics EXCEPT ![requester] = @ + 1]]

RECURSIVE provide_all(_, _, _)
provide_all(new_state, preimages, slot) ==
    IF preimages = <<>> THEN new_state
    ELSE provide_all(provide(new_state, Head(preimages), slot), Tail(preimages), slot)

\* check_input of a run that is no order check: only a hash that a requester sends
\* twice makes the input invalid
check_input(preimages) ==
    ~\E i, j \in DOMAIN preimages :
        /\ i < j
        /\ preimages[i].requester = preimages[j].requester
        /\ hash_blob(preimages[i].blob) = hash_blob(preimages[j].blob)

\* run_preimage_test on the state as pre_state; generated_post_state is the new state.
\* An invalid input ends in the NameError of line 136 and no post-state.
run_preimage_test(preimages, slot) ==
    /\ i_calls < MaxPreimageBlocks
    /\ \E new_state \in {provide_all([accounts |-> accounts, statistics |-> statistics],
                                    preimages, slot)} :
          IF check_input(preimages)
          THEN /\ accounts' = new_state.accounts
               /\ statistics' = new_state.statistics
               /\ i_result' = "ok"
          ELSE /\ UNCHANGED <<accounts, statistics>>
               /\ i_result' = "error"
    /\ i_input' = preimages
    /\ i_path' = "stf"
    /\ i_calls' = i_calls + 1
    /\ UNCHANGED <<gvars, pvars, rvars, svars, avars, hvars, mvars, ovars>>

PreimageInputs ==
    UNION {[1 .. n -> [requester : Requesters, blob : Blobs]] : n \in 0 .. MaxPreimages}

NextPreimages ==
    \/ \E preimages \in PreimageInputs : preimages_main(preimages)
    \/ \E preimages \in PreimageInputs, slot \in 1 .. MaxPreimageSlot :
          run_preimage_test(preimages, slot)

\* the two blobs of different bytes, and the keys under which they can be solicited
Blob1 == [prefix |-> "0x", bytes |-> <<1>>]
Blob2 == [prefix |-> "0x", bytes |-> <<2, 3>>]
held(blob) == [hash |-> hash_blob(blob), blob |-> blob]
solicited(blob, length) == [key |-> [hash |-> hash_blob(blob), length |-> length], value |-> <<>>]

\* A state in which service 1 may have solicited the blobs, one of them also under a
\* length that is not its own, and may hold them; service 2 has no account or an empty one
InitPreimages ==
    /\ accounts \in
         [Requesters ->
             {NoAccount} \cup
             {[exists |-> TRUE, preimages |-> ps, lookup_meta |-> a \o b \o c] :
                 ps \in {<<>>, <<held(Blob1)>>, <<held(Blob2)>>, <<held(Blob2), held(Blob1)>>},
                 a \in {<<>>, <<solicited(Blob1, 1)>>},
                 b \in {<<>>, <<solicited(Blob1, 2)>>},
                 c \in {<<>>, <<solicited(Blob2, 2)>>}}]
    /\ accounts[2].preimages = <<>> /\ accounts[2].lookup_meta = <<>>
    /\ statistics = [r \in Requesters |-> 0]
    /\ i_input = <<>>
    /\ i_result = "none"
    /\ i_path = "none"
    /\ i_calls = 0
    /\ InitGrandpaVars
    /\ InitPipelineVars
    /\ InitLedgerVars
    /\ InitSafroleVars
    /\ InitAssurancesVars
    /\ InitHistoryVars
    /\ InitStateRootVars
    /\ InitOtherVars

SpecPreimages == InitPreimages /\ [][NextPreimages]_vars

\* the account of a requester holds the bytes of the blob
Holds(accts, requester, blob) ==
    \E i \in DOMAIN accts[requester].preimages :
        accts[requester].preimages[i].blob.bytes = blob.bytes

\* the preimages a block added: entries of the new state whose blob the account did
\* not hold before, and their being solicited in the state before the block
AdditionsSolicited ==
    \A r \in Requesters : \A i \in DOMAIN accounts'[r].preimages :
        LET e == accounts'[r].preimages[i]
        IN ~Holds(accounts, r, e.blob) => found_with_length(accounts[r].lookup_meta, e.blob)

\* C26: a preimage is added to an account's preimages only if, before the block, the
\* lookup_meta of that account has an entry whose key has the hash and the length of the
\* blob; a block of unsolicited preimages leaves the state as it was.
C26_SolicitedOnly ==
    [][i_calls' # i_calls =>
          /\ AdditionsSolicited
          /\ (\A k \in DOMAIN i_input' :
                 ~found_with_length(accounts[i_input'[k].requester].lookup_meta,
                                    i_input'[k].blob))
                => accounts' = accounts /\ statistics' = statistics]_vars

\* C27: a block that re-submits only preimages their requesters already hold leaves the
\* preimages and the lookup_meta of every account as they were.
C27_ResubmitIdempotent ==
    [][(/\ i_calls' # i_calls
        /\ i_result' = "ok"
        /\ i_input' # <<>>
        /\ \A k \in DOMAIN i_input' : Holds(accounts, i_input'[k].requester, i_input'[k].blob))
          => \A r \in Requesters :
                /\ accounts'[r].preimages = accounts[r].preimages
                /\ accounts'[r].lookup_meta = accounts[r].lookup_meta]_vars

-----------------------------------------------------------------------------
(* Block history (Jam-history) *)

MaxHistoryBlocks == 9

\* 32-byte values: the ones a block carries, the digests, and Python's None
None == [alg |-> "None", id |-> 0, of |-> <<>>]
given(n) == [alg |-> "given", id |-> n, of |-> <<>>]
keccak256(data) == [alg |-> "keccak256", id |-> 0, of |-> data]
hashlib_sha256(data) == [alg |-> "sha256", id |-> 0, of |-> data]

\* count & (1 << height) != 0
bit(count, height) == (count \div (2 ^ height)) % 2 = 1

\* the first loop of mmr_append
RECURSIVE merge_peaks(_, _, _, _)
merge_peaks(peaks, count, hash_val, height) ==
    IF bit(count, height)
    THEN IF height < Len(peaks) /\ peaks[height + 1] # None
         THEN merge_peaks([peaks EXCEPT ![height + 1] = None], count,
                          keccak256(<<peaks[height + 1], hash_val>>), height + 1)
         ELSE merge_peaks(peaks, count, hash_val, height + 1)
    ELSE [peaks |-> peaks, hash_val |-> hash_val, height |-> height]

mmr_append(prev, leaf) ==
    LET merged == merge_peaks(prev.peaks, prev.count, leaf, 0)
        padded == IF Len(merged.peaks) <= merged.height
                  THEN merged.peaks \o
                       [i \in 1 .. (merged.height + 1 - Len(merged.peaks)) |-> None]
                  ELSE merged.peaks
    IN [peaks |-> [padded EXCEPT ![merged.height + 1] = merged.hash_val],
        count |-> prev.count + 1]

update_mmr(prev, leaf) == mmr_append(prev, leaf)

is_peak(p) == p # None

RECURSIVE drop_oldest(_)
drop_oldest(blocks_) ==
    IF Len(blocks_) > 8 THEN drop_oldest(Tail(blocks_)) ELSE blocks_

\* HistorySTF.transition: the beta of its postState
transition(pre_state, input_data) ==
    LET n == Len(pre_state)
        global_mmr ==
            IF n > 0
            THEN [peaks |-> pre_state[n].mmr.peaks,
                  count |-> IF pre_state[n].mmr.count = 0 THEN n
                            ELSE pre_state[n].mmr.count]
            ELSE [peaks |-> <<>>, count |-> 0]
        appended == update_mmr(global_mmr, input_data.accumulate_root)
        closed == IF n > 0
                  THEN [pre_state EXCEPT ![n].state_root = input_data.parent_state_root]
                  ELSE pre_state
        valid_peaks == SelectSeq(appended.peaks, is_peak)
        new_block == [header_hash |-> input_data.header_hash,
                      state_root |-> hashlib_sha256(<<input_data.header_hash>> \o valid_peaks),
                      mmr |-> [peaks |-> valid_peaks, count |-> appended.count],
                      reported |-> input_data.work_packages]
    IN drop_oldest(Append(closed, new_block))

\* the fields of the dataclass BetaBlock, and its constructor raising TypeError on a
\* keyword that is none of them
BetaBlock_fields == {"header_hash", "state_root", "mmr", "reported"}
BetaBlock_accepts(keywords) == keywords \subseteq BetaBlock_fields

\* the block_data for which the try of create_state_from_dict ends without an exception
block_parsed(block_data) ==
    BetaBlock_accepts({"header_hash", "state_root", "mmr", "reported", "timestamp"})

\* create_state_from_dict: a State object is handed back, the beta of a dict is parsed
\* block by block and a block whose parsing raises is left out
create_state_from_dict(data) ==
    IF data.kind = "State" THEN data.beta ELSE SelectSeq(data.beta, block_parsed)

state_to_dict(state_) ==
    [i \in DOMAIN state_ |->
        [header_hash |-> state_[i].header_hash,
         state_root |-> state_[i].state_root,
         mmr |-> [peaks |-> state_[i].mmr.peaks, count |-> state_[i].mmr.count],
         reported |-> state_[i].reported]]

\* test.py main on one payload: without header_hash or parent_state_root it returns
\* before the transition; otherwise the post state replaces the beta of the state file
history_main(payload) ==
    /\ h_blocks < MaxHistoryBlocks
    /\ IF payload.header_hash = None \/ payload.parent_state_root = None
       THEN UNCHANGED hvars
       ELSE LET current_state == create_state_from_dict([kind |-> h_kind, beta |-> beta])
                post_state == transition(current_state, payload)
            IN /\ beta' = state_to_dict(post_state)
               /\ h_seen' = Append(h_seen, payload)
               /\ h_blocks' = h_blocks + 1
               /\ UNCHANGED h_kind
    /\ UNCHANGED <<gvars, pvars, rvars, svars, avars, ivars, mvars, ovars>>

HistoryPayloads ==
    {[header_hash |-> given(1), parent_state_root |-> given(11),
      accumulate_root |-> given(21), work_packages |-> <<>>],
     [header_hash |-> given(2), parent_state_root |-> given(12),
      accumulate_root |-> given(22), work_packages |-> <<>>],
     [header_hash |-> given(3), parent_state_root |-> given(11),
      accumulate_root |-> given(21), work_packages |-> <<given(31)>>],
     [header_hash |-> None, parent_state_root |-> given(11),
      accumulate_root |-> given(21), work_packages |-> <<>>]}

NextHistory == \E payload \in HistoryPayloads : history_main(payload)

\* An empty history; the pre-state reaches create_state_from_dict as the dict read from
\* the state file (test.py main) or as the State object of the previous transition
InitHistory ==
    /\ beta = <<>>
    /\ h_kind \in {"dict", "State"}
    /\ h_seen = <<>>
    /\ h_blocks = 0
    /\ InitGrandpaVars
    /\ InitPipelineVars
    /\ InitLedgerVars
    /\ InitSafroleVars
    /\ InitAssurancesVars
    /\ InitPreimagesVars
    /\ InitStateRootVars
    /\ InitOtherVars

SpecHistory == InitHistory /\ [][NextHistory]_vars

header_hashes(entries) == [i \in DOMAIN entries |-> entries[i].header_hash]
last_of(seq, n) == SubSeq(seq, Len(seq) - n + 1, Len(seq))

\* C28: after k processed blocks from an empty history, beta holds the entries of the
\* last min(k, 8) blocks, in the order the blocks appeared.
C28_LastEight ==
    header_hashes(beta) =
        last_of(header_hashes(h_seen), IF h_blocks < 8 THEN h_blocks ELSE 8)

\* C29: the MMR of each new beta entry is mmr_append of the MMR of the entry that was
\* newest before the block (the empty MMR with count 0 for an empty history) and the
\* accumulate_root of the block.
C29_AppendRule ==
    [][h_blocks' # h_blocks =>
          beta'[Len(beta')].mmr =
              mmr_append(IF beta = <<>> THEN [peaks |-> <<>>, count |-> 0]
                         ELSE beta[Len(beta)].mmr,
                         h_seen'[Len(h_seen')].accumulate_root)]_vars

-----------------------------------------------------------------------------
(* State root (server/compute_merkle_root.py, jam/core/safrole_block_producer.py) *)

MaxRootCalls == 2

\* the values a chapter may serialize to: their length in bytes and their content
ChapterValues(chapter_index) ==
    IF chapter_index = 100 THEN {[len |-> 8, id |-> 1]}
    ELSE IF chapter_index = 101 THEN {[len |-> 64, id |-> 2]}
    ELSE {[len |-> 32, id |-> 3], [len |-> 64, id |-> 4]}

StateData ==
    {d \in [Chapters -> {Absent} \cup UNION {ChapterValues(c) : c \in Chapters}] :
        \A c \in Chapters : d[c] \in {Absent} \cup ChapterValues(c)}

hash_func(data) == blake2b(data)

\* 0b01000000 | (len(v) << 2)
embedded_head(length) ==
    IF ((length * 4) \div 64) % 2 = 1 THEN length * 4 ELSE 64 + length * 4

leaf_node(k, v) ==
    IF v.len <= 32 THEN <<"leaf", embedded_head(v.len), k, v>>
    ELSE <<"leaf", 192, k, hash_func(v)>>

\* the hash with the first bit of its first byte cleared
first_bit_cleared(l_hash) == <<"& 0b01111111", l_hash>>

branch_node(l_hash, r_hash) == <<"branch", first_bit_cleared(l_hash), r_hash>>

\* state_key_constructor(chapter_index): the chapter in byte 0, then 30 bytes of zero
state_key_constructor(chapter_index) == chapter_index

\* the bit of a key of state_key_constructor: bit_index of byte 0, or 0 past byte 0
get_bit(key_bytes, index) ==
    IF index < 8 THEN (key_bytes \div (2 ^ index)) % 2 = 1 ELSE FALSE

RECURSIVE insert_by_key(_, _)
insert_by_key(kv, kvs) ==
    IF kvs = <<>> THEN <<kv>>
    ELSE IF kv[1] < kvs[1][1] THEN <<kv>> \o kvs
    ELSE <<kvs[1]>> \o insert_by_key(kv, Tail(kvs))

\* sorted(items, key=lambda x: x[0])
RECURSIVE sorted_items(_)
sorted_items(kvs) ==
    IF kvs = <<>> THEN <<>> ELSE insert_by_key(kvs[1], sorted_items(Tail(kvs)))

RECURSIVE side_of(_, _, _)
side_of(kvs, i, right) ==
    IF kvs = <<>> THEN <<>>
    ELSE IF get_bit(kvs[1][1], i) = right THEN <<kvs[1]>> \o side_of(Tail(kvs), i, right)
    ELSE side_of(Tail(kvs), i, right)

RECURSIVE merkle(_, _)
merkle(kvs, i) ==
    IF kvs = <<>> THEN <<"zero">>
    ELSE IF Len(kvs) = 1 THEN hash_func(leaf_node(kvs[1][1], kvs[1][2]))
    ELSE hash_func(branch_node(merkle(sorted_items(side_of(kvs, i, FALSE)), i + 1),
                               merkle(sorted_items(side_of(kvs, i, TRUE)), i + 1)))

\* serialize_state: the items of serialized_map, in the order the dict hands them out;
\* a chapter whose field is missing or serializes to no bytes has no item
RECURSIVE items_of(_, _)
items_of(state_data, order) ==
    IF order = <<>> THEN <<>>
    ELSE IF state_data[order[1]] = Absent THEN items_of(state_data, Tail(order))
    ELSE <<<<state_key_constructor(order[1]), state_data[order[1]]>>>> \o
         items_of(state_data, Tail(order))

serialize_state(state_data, order) == items_of(state_data, order)

\* "0x" + bytes.hex()
hex_of(root_bytes) == <<"0x", root_bytes>>

compute_merkle_root_from_data(state_data, order) ==
    LET serialized_map == serialize_state(state_data, order)
    IN IF serialized_map = <<>> THEN hex_of(<<"zero">>)
       ELSE hex_of(merkle(sorted_items(serialized_map), 0))

\* server.compute_and_store_merkle_root
compute_and_store_merkle_root(state_data, order) ==
    /\ m_root' = compute_merkle_root_from_data(state_data, order)
    /\ m_data' = state_data
    /\ m_prev' = [data |-> m_data, root |-> m_root]
    /\ UNCHANGED <<producer, roots, p_block>>
    /\ UNCHANGED <<gvars, pvars, rvars, svars, avars, ivars, hvars, ovars>>

\* generate_vrf_entropy: a digest of the private key of the validator and of the slot
generate_vrf_entropy(validator_private_key, slot) == 7 * validator_private_key + slot

\* SafroleManager.process_block on a block without tickets that carries an entropy
process_block_of(pre_state, slot, entropy, rust_up) ==
    LET out == run_block(pre_state, slot, <<>>, rust_up)
    IN IF out.err # "none" THEN out
       ELSE [err |-> "none",
             current |-> [out.current EXCEPT
                             !.eta[1] = calculate_eta_update(pre_state.eta[1], entropy)]]

\* json.dumps(..., sort_keys=True).encode()
json_dumps(data) == <<"json", data>>

\* SafroleBlockProducer.compute_state_root: what it returns and the state of the
\* manager after it
state_root_of(self, work_reports, preimages, rust_up) ==
    LET slot == self.current_slot + 1
        entropy == generate_vrf_entropy(self.validator_private_key, slot)
        result == process_block_of(self.state, slot, entropy, rust_up)
    IN IF result.err = "none"
       THEN [root |-> hex_of(blake2b(json_dumps(result.current))), state |-> result.current]
       ELSE [root |-> hex_of(blake2b(json_dumps([work_reports |-> work_reports,
                                                  preimages |-> preimages,
                                                  slot |-> slot]))),
             state |-> self.state]

compute_state_root(n, rust_up) ==
    /\ Len(roots[n]) < MaxRootCalls
    /\ \E out \in {state_root_of(producer[n], p_block.work_reports, p_block.preimages,
                                 rust_up)} :
          /\ producer' = [producer EXCEPT ![n].state = out.state]
          /\ roots' = [roots EXCEPT ![n] = Append(@, out.root)]
    /\ UNCHANGED <<m_data, m_root, m_prev, p_block>>
    /\ UNCHANGED <<gvars, pvars, rvars, svars, avars, ivars, hvars, ovars>>

\* the orders in which a dict may hand out the chapters
ChapterOrders ==
    {<<100, 101, 104>>, <<100, 104, 101>>, <<101, 100, 104>>, <<101, 104, 100>>,
     <<104, 100, 101>>, <<104, 101, 100>>}

NextStateRoot ==
    \/ \E state_data \in StateData, order \in ChapterOrders :
          compute_and_store_merkle_root(state_data, order)
    \/ \E n \in Nodes, rust_up \in BOOLEAN : compute_state_root(n, rust_up)

\* Two producers built from the same state file, each with the private key of its own
\* validator; the server has computed no root yet
InitStateRoot ==
    /\ m_data = [c \in Chapters |-> Absent]
    /\ m_root = NoRoot
    /\ m_prev = [data |-> [c \in Chapters |-> Absent], root |-> NoRoot]
    /\ \E slot \in {0, 2} :
          producer \in {[n \in Nodes |-> LoadedProducer(slot, keys[n])] :
                           keys \in {<<1, 1>>, <<1, 2>>}}
    /\ roots = [n \in Nodes |-> <<>>]
    /\ p_block = [work_reports |-> <<1>>, preimages |-> <<>>]
    /\ InitGrandpaVars
    /\ InitPipelineVars
    /\ InitLedgerVars
    /\ InitSafroleVars
    /\ InitAssurancesVars
    /\ InitPreimagesVars
    /\ InitHistoryVars
    /\ InitOtherVars

SpecStateRoot == InitStateRoot /\ [][NextStateRoot]_vars

\* the roots the server computed for the same state are the same
MerkleRootDeterministic ==
    (m_prev.root # NoRoot /\ m_prev.data = m_data) => m_prev.root = m_root

-----------------------------------------------------------------------------
(* GRANDPA: properties *)

\* The step of run_round that tallies the precommits and ends the round.
TallyStep == pc = "precommit_tally" /\ round' = round + 1

\* The prevote tally of the current round has been computed.
PrevoteTallyDone == prevotes # <<>> /\ pc # "prevote_tally"

\* C1: for every round number r, no two distinct block hashes ever receive a
\* Justification for round r, over all engines and all calls of finalize_block.
C1_OneJustificationPerRound ==
    \A j1 \in justs, j2 \in justs : j1[1] = j2[1] => j1[2] = j2[2]

C2_Qualifies(B) ==
    /\ B # Nil
    /\ CountOf(precommits, B) >= threshold(nvalidators)
    /\ B \in tree
    /\ BLOCK_BY_HASH[B].audited
    /\ ~contains_equivocation_between(tree, B, finalized)

\* C2: a round finalizes block B if and only if B is not nil, the precommits for B
\* reach a super-majority, and B is audited and free of equivocation at tally time.
C2_FinalizesIffQualified ==
    [][TallyStep => \A B \in AllBlocks : (final_bh' = B) <=> C2_Qualifies(B)]_vars

\* The children of the finalized tip that the block tree holds.
TipChildren(t, fin) == {b \in t : fin # Nil /\ BLOCK_BY_HASH[b].parent = fin}

\* Two sibling children of the finalized tip with super-majority precommits each.
SiblingClash(pcs, t, fin, n) ==
    \E b1 \in TipChildren(t, fin), b2 \in TipChildren(t, fin) :
        /\ b1 # b2
        /\ CountOf(pcs, b1) >= threshold(n)
        /\ CountOf(pcs, b2) >= threshold(n)

NoFinalization ==
    /\ final_bh' = Nil
    /\ finalized' = finalized
    /\ db_finalized' = db_finalized
    /\ justs' = justs

\* C3 (as amended): when two sibling children of the finalized tip have super-majority
\* precommits each and the most common precommit hash is one of the children of the tip,
\* the round returns no finalization and the finalized pointer keeps its value in memory
\* and in the store.
C3_SiblingsBlockFinality ==
    [][(/\ TallyStep
        /\ SiblingClash(precommits, tree, finalized, nvalidators)
        /\ most_common(precommits) \in TipChildren(tree, finalized)) => NoFinalization]_vars

\* C3 as stated: two sibling children of the finalized tip with super-majority precommits
\* each always leave the round without a finalization.
C3_SiblingsAlwaysBlock ==
    [][(TallyStep /\ SiblingClash(precommits, tree, finalized, nvalidators))
          => NoFinalization]_vars

\* A round has just ended without finalization although two sibling children of the
\* finalized tip had super-majority precommits, one of them on top of the tally.
C3_Witness ==
    /\ mode = "node"
    /\ pc = "idle"
    /\ precommits # <<>>
    /\ SiblingClash(precommits, tree, finalized, nvalidators)
    /\ most_common(precommits) \in TipChildren(tree, finalized)
    /\ final_bh = Nil
    /\ finalized = round_begin.finalized
    /\ db_finalized = finalized

\* The round of the last run_round that started (self.round moves on when it ends).
LastRound == IF pc = "idle" THEN round - 1 ELSE round

\* The own precommit of that round, wherever it is by now.
OwnPrecommits ==
    {v \in Elems(recv_buffer.precommit) \cup Elems(precommits) :
        v.validator = Self /\ v.round = LastRound}

\* C6 (as amended): a prevote candidate C has a prevote tally of at least
\* floor(2N/3)+1; when no hash reaches that count C is nil and the own precommit is nil.
C6_CandidateThreshold ==
    PrevoteTallyDone =>
        /\ candidate # Nil =>
              CountOf(prevotes, candidate) >= (2 * nvalidators) \div 3 + 1
        /\ (\A h \in HashesOf(prevotes) :
                CountOf(prevotes, h) < (2 * nvalidators) \div 3 + 1) =>
              /\ candidate = Nil
              /\ \A v \in OwnPrecommits : v.block_hash = Nil

\* C6 as stated: a prevote candidate has a tally of at least ceil(2N/3)+1.
C6_CeilThreshold ==
    (PrevoteTallyDone /\ candidate # Nil) =>
        CountOf(prevotes, candidate) >= (2 * nvalidators + 2) \div 3 + 1

\* A candidate chosen from the own prevote and one of a peer, among two validators.
C6_Witness ==
    /\ mode = "node"
    /\ nvalidators = 2
    /\ pc = "precommit_wait"
    /\ candidate # Nil
    /\ CountOf(prevotes, candidate) = 2

\* C7: every vote that contributes to a tally is in the votes table before the tally
\* is computed.
C7_PersistedBeforeTally ==
    /\ Elems(prevotes) \subseteq db_votes
    /\ Elems(precommits) \subseteq db_votes

\* The prevotes have been collected, a peer's among them, and the tally is next.
C7_Witness ==
    /\ pc = "prevote_tally"
    /\ \E v \in Elems(prevotes) : v.validator # Self
    /\ Elems(prevotes) \subseteq db_votes

\* The votes of a list without the repeated deliveries (first delivery kept).
RECURSIVE Dedup(_)
Dedup(s) ==
    IF s = <<>> THEN <<>>
    ELSE LET front == Dedup(SubSeq(s, 1, Len(s) - 1))
             last  == s[Len(s)]
         IN IF last \in Elems(front) THEN front ELSE Append(front, last)

\* The votes of a list in the opposite order of arrival.
Reverse(s) == [i \in 1 .. Len(s) |-> s[Len(s) + 1 - i]]

\* C8: the tally depends only on the set of validators that voted for each hash: the
\* same votes in another order of arrival, or with repeated deliveries removed, give
\* the same prevote candidate.
C8_TallyIsSetBased ==
    PrevoteTallyDone =>
        /\ candidate = PrevoteCandidate(Dedup(prevotes), nvalidators)
        /\ candidate = PrevoteCandidate(Reverse(prevotes), nvalidators)

\* C9: an engine that begins a round, after a crash and restart or in a new call of
\* finalize_block, has its finalized pointer equal to the most recently stored hash.
C9_BeginsAtStored == round_begin.finalized = round_begin.stored

\* C10: whenever the engine prevotes a non-nil hash, every block of its tree from that
\* hash back to (excluding) the finalized block is audited.
C10_PrevoteChainAudited ==
    (mode = "node" /\ pc = "prevote_wait" /\ head # Nil) =>
        \A b \in ancestor_chain(tree, head, finalized) \cap tree : BLOCK_BY_HASH[b].audited

\* The votes signed with the key of a validator, persisted or still buffered.
SignedBy(key) ==
    {v \in db_votes \cup Elems(recv_buffer.prevote) \cup Elems(recv_buffer.precommit) :
        v.sig_ed25519.by = key}

\* C35: the validator never signs two prevotes, or two precommits, with the same round
\* number and different block hashes, over all rounds of the engine and all calls of
\* finalize_block.
C35_NoOwnEquivocation ==
    \A v1 \in SignedBy(Self), v2 \in SignedBy(Self) :
        (v1.stage = v2.stage /\ v1.round = v2.round) => v1.block_hash = v2.block_hash

\* C36: whenever the finalized pointer of an engine changes in a round, the newly
\* finalized block is a descendant of the block finalized before.
C36_FinalityExtends ==
    [][(TallyStep /\ finalized # Nil /\ finalized' # finalized) =>
          AncestorWalk(tree, finalized', finalized)]_vars

\* The signature of a vote verifies over the canonical message of the vote under the key
\* of the validator the vote names.
SignatureVerifies(v) ==
    v.sig_ed25519 =
        sign_ed25519(v.validator, vote_message_canonical(v.round, v.stage, v.block_hash))

\* C37: every vote counted in a tally, and with it every signature of a Justification,
\* has a signature that verifies under the key of the validator it names, and that
\* validator belongs to the validator set.
C37_CountedVotesVerified ==
    \A v \in Elems(prevotes) \cup Elems(precommits) :
        SignatureVerifies(v) /\ v.validator \in Validators(nvalidators)

\* C38: only votes whose round field is the current round of the engine are counted
\* in the prevote and precommit tallies of the round.
C38_TalliesOfCurrentRound ==
    /\ \A v \in Elems(prevotes) : v.round = LastRound
    /\ \A v \in Elems(precommits) : v.round = LastRound


(***************************************************************************)
(* Authorization: server/auth_integration.py.  process_authorization is a  *)
(* coroutine of the module-level authorization_processor: it loads the     *)
(* state file, awaits the PVM when the request carries a public key and a  *)
(* signature, applies the STF to the state it loaded and saves the result. *)
(* Requests carry auths = [], so that pools and queues stay empty; of a    *)
(* record of authorizations the nonce is kept.                             *)
(***************************************************************************)
MaxAuthCalls == 4

\* _apply_authorization_stf, lines 349-364: the record of the public key gets the
\* nonce of the loaded record plus one
apply_authorization_stf(loaded, public_key) ==
    IF public_key # NoKey
    THEN [loaded EXCEPT ![public_key] = @ + 1]
    ELSE loaded

\* AuthorizationProcessor.save_state: current_state.update({"authorizations": auth_state["authorizations"]})
auth_save_state(post_state) == post_state

\* process_authorization up to its first await: load_state and deepcopy; without a
\* public key or without a signature there is no await and the request runs to its end
process_authorization(t, public_key, signature) ==
    /\ auth_calls < MaxAuthCalls
    /\ auth_tasks[t].at = "idle"
    /\ auth_calls' = auth_calls + 1
    /\ IF public_key # NoKey /\ signature
       THEN /\ auth_tasks' = [auth_tasks EXCEPT
                                  ![t] = [at |-> "verify_with_pvm", public_key |-> public_key,
                                          authorizations |-> authorizations]]
            /\ UNCHANGED <<authorizations, auth_done>>
       ELSE /\ authorizations' = auth_save_state(apply_authorization_stf(authorizations, public_key))
            /\ auth_done' = IF public_key # NoKey
                             THEN [auth_done EXCEPT ![public_key] = @ + 1]
                             ELSE auth_done
            /\ UNCHANGED auth_tasks
    /\ UNCHANGED <<gvars, pvars, rvars, svars, avars, ivars, hvars, mvars, kvars, qvars>>

\* process_authorization after await self._verify_with_pvm(...): the STF on the
\* authorizations loaded before the await, then save_state
process_authorization_resume(t) ==
    /\ auth_tasks[t].at = "verify_with_pvm"
    /\ authorizations' =
           auth_save_state(apply_authorization_stf(auth_tasks[t].authorizations,
                                              auth_tasks[t].public_key))
    /\ auth_done' = [auth_done EXCEPT ![auth_tasks[t].public_key] = @ + 1]
    /\ auth_tasks' = [auth_tasks EXCEPT ![t] = Idle]
    /\ UNCHANGED auth_calls
    /\ UNCHANGED <<gvars, pvars, rvars, svars, avars, ivars, hvars, mvars, kvars, qvars>>

NextAuthorization ==
    \/ \E t \in Tasks, public_key \in PublicKeys \cup {NoKey}, signature \in BOOLEAN :
          process_authorization(t, public_key, signature)
    \/ \E t \in Tasks : process_authorization_resume(t)

InitAuthorization ==
    /\ InitAuthorizationVars
    /\ InitProducerVars
    /\ InitRetryVars
    /\ InitGrandpaVars
    /\ InitPipelineVars
    /\ InitLedgerVars
    /\ InitSafroleVars
    /\ InitAssurancesVars
    /\ InitPreimagesVars
    /\ InitHistoryVars
    /\ InitStateRootVars

SpecAuthorization == InitAuthorization /\ [][NextAuthorization]_vars

\* C34: the nonce stored for a public key never decreases, and every authorization
\* processed for the key increases it by exactly one, over any interleaving of the
\* requests.
C34_NonceMonotonic ==
    [][\A k \in PublicKeys :
          /\ authorizations'[k] >= authorizations[k]
          /\ auth_done'[k] # auth_done[k] => authorizations'[k] = authorizations[k] + 1]_vars

(***************************************************************************)
(* Block production: SafroleBlockProducer.produce_block, called on a       *)
(* producer that lives as long as its program (run_safrole.py,             *)
(* safrole_integration.py) and by the server, which builds a producer of   *)
(* its own for every request (run_safrole_with_merkle_root, lines 789-819).*)
(* The producer is taken as constructed, as in the model of the state root.*)
(***************************************************************************)
MaxProducerCalls == 3
MaxTargetSlot == 4

\* is_leader_for_slot: slot % validator_count == validator_index
is_leader_for_slot(self, slot) ==
    self.validators > 0 /\ slot % self.validators = self.validator_index

\* The check of produce_block that it has not authored the slot before (lines 791-794).
already_authored(self, target_slot) == target_slot <= self.last_authored_slot

\* produce_block: the producer afterwards and the slot of the block returned
\* (returned = FALSE: None).  ok: the steps inside the try raise nothing.
safrole_produce_block(self, target_slot, ok) ==
    IF ~is_leader_for_slot(self, target_slot) THEN [self |-> self, returned |-> FALSE]
    ELSE IF already_authored(self, target_slot) THEN [self |-> self, returned |-> FALSE]
    ELSE IF ~ok THEN [self |-> self, returned |-> FALSE]
    ELSE [self |-> [self EXCEPT !.last_authored_slot = target_slot,
                                !.current_slot = target_slot],
          returned |-> TRUE]

\* A call of produce_block on the long-lived producer; has_target = FALSE: target_slot is None
\* and the slot is current_slot + 1.
call_produce_block(has_target, slot, ok) ==
    /\ sp_calls < MaxProducerCalls
    /\ sp_calls' = sp_calls + 1
    /\ LET target_slot == IF has_target THEN slot ELSE sp.current_slot + 1
           out == safrole_produce_block(sp, target_slot, ok)
       IN /\ sp' = out.self
          /\ authored' = IF out.returned THEN Append(authored, target_slot) ELSE authored
    /\ UNCHANGED sp_file
    /\ UNCHANGED <<gvars, pvars, rvars, svars, avars, ivars, hvars, mvars, zvars, qvars>>

\* The slots the server tries: range(producer.current_slot + 1, producer.current_slot + 10)
leadership_slots(self) ==
    {slot \in (self.current_slot + 1) .. (self.current_slot + 9) : is_leader_for_slot(self, slot)}

\* A request of block production in the server, lines 789-819: a new producer from the
\* state file, the first leadership slot of the next nine, produce_block for it.  The
\* producer is a local of the request and the state file is not written.
block_production_request(ok) ==
    /\ sp_calls < MaxProducerCalls
    /\ sp_calls' = sp_calls + 1
    /\ LET new_producer == create_safrole_producer(sp_file)
           slots == leadership_slots(new_producer)
       IN IF slots = {}
          THEN UNCHANGED authored
          ELSE LET target_slot == CHOOSE slot \in slots : \A o \in slots : slot <= o
                   out == safrole_produce_block(new_producer, target_slot, ok)
               IN authored' = IF out.returned THEN Append(authored, target_slot)
                              ELSE authored
    /\ UNCHANGED <<sp_file, sp>>
    /\ UNCHANGED <<gvars, pvars, rvars, svars, avars, ivars, hvars, mvars, zvars, qvars>>

NextProducer ==
    \/ \E has_target \in BOOLEAN, slot \in 0 .. MaxTargetSlot, ok \in BOOLEAN :
          call_produce_block(has_target, slot, ok)
    \/ \E ok \in BOOLEAN : block_production_request(ok)

InitProducer ==
    /\ sp_file \in [current_slot : {0, 1}, validators : {1, 2}]
    /\ sp = create_safrole_producer(sp_file)
    /\ authored = <<>>
    /\ sp_calls = 0
    /\ InitGrandpaVars
    /\ InitPipelineVars
    /\ InitLedgerVars
    /\ InitSafroleVars
    /\ InitAssurancesVars
    /\ InitPreimagesVars
    /\ InitHistoryVars
    /\ InitStateRootVars
    /\ InitAuthorizationVars
    /\ InitRetryVars

SpecProducer == InitProducer /\ [][NextProducer]_vars

OneProducerSlotsIncrease ==
    [][sp'.last_authored_slot # sp.last_authored_slot =>
          sp'.last_authored_slot > sp.last_authored_slot]_vars

(***************************************************************************)
(* The PVM client: accumulate/accumulate_component.py,                     *)
(* post_accumulate_json_with_retry.  An HTTP attempt ends with a response  *)
(* ("ok"), with a requests.RequestException (no connection, timeout, error *)
(* status) or with another exception.  The response of attempt i is i.     *)
(***************************************************************************)
MaxRetries == 2

Outcomes == {"ok", "RequestException", "Exception"}

\* PVMConfig.max_retries: int(os.getenv("PVM_MAX_RETRIES", "3")), any integer
RetryConfigs == -1 .. MaxRetries

\* A loop that goes on after every failure.
retry_always(attempt, max_retries) == TRUE

\* line 285: if attempt < config.max_retries
may_retry(attempt, max_retries) == attempt < max_retries

Ended(kind, resp, posts) == [kind |-> kind, response |-> resp, posts |-> posts]

\* for attempt in range(config.max_retries + 1), lines 273-297; the loop left at its
\* end returns None
RECURSIVE retry_loop(_, _, _)
retry_loop(attempt, max_retries, outcomes) ==
    IF attempt >= max_retries + 1 THEN Ended("None", 0, attempt)
    ELSE IF outcomes[attempt + 1] = "ok" THEN Ended("return", attempt + 1, attempt + 1)
    ELSE IF outcomes[attempt + 1] = "RequestException"
         THEN IF may_retry(attempt, max_retries)
              THEN retry_loop(attempt + 1, max_retries, outcomes)
              ELSE Ended("PVMConnectionError", 0, attempt + 1)
    ELSE Ended("PVMResponseError", 0, attempt + 1)

post_accumulate_json_with_retry(max_retries, outcomes) ==
    /\ q_max_retries' = max_retries
    /\ q_outcomes' = outcomes
    /\ q_result' = retry_loop(0, max_retries, outcomes)
    /\ UNCHANGED <<gvars, pvars, rvars, svars, avars, ivars, hvars, mvars, zvars, kvars>>

NextRetry ==
    \E max_retries \in RetryConfigs, outcomes \in [1 .. MaxRetries + 2 -> Outcomes] :
        post_accumulate_json_with_retry(max_retries, outcomes)

InitRetry ==
    /\ InitRetryVars
    /\ InitGrandpaVars
    /\ InitPipelineVars
    /\ InitLedgerVars
    /\ InitSafroleVars
    /\ InitAssurancesVars
    /\ InitPreimagesVars
    /\ InitHistoryVars
    /\ InitStateRootVars
    /\ InitAuthorizationVars
    /\ InitProducerVars

SpecRetry == InitRetry /\ [][NextRetry]_vars

\* The attempts of the last call that the configuration allows.
Allowed == 1 .. (q_max_retries + 1)

\* The first of the allowed attempts that meets a response, all before it having met a
\* RequestException.
FirstSuccess(i) ==
    /\ i \in Allowed
    /\ q_outcomes[i] = "ok"
    /\ \A j \in 1 .. (i - 1) : q_outcomes[j] = "RequestException"

====
